---------------------------- MODULE Spec2Model ----------------------------
(***************************************************************************)
(* A model of glyphs-plist: the plist text engine (lexer, recursive        *)
(* descent parser, canonical serializer) and the derive-generated schema   *)
(* mapping between Plist dictionaries and typed records.                   *)
(*                                                                         *)
(* Text is a sequence of one-character strings.  A byte index ix of the    *)
(* Rust code is kept 0-based: the byte at ix is s[ix + 1].                 *)
(***************************************************************************)
EXTENDS Integers, Sequences, FiniteSets, TLC

(***************************************************************************)
(* Characters                                                              *)
(***************************************************************************)

\* Printable ASCII, code 32 first; Ascii[i] has byte value 31 + i.  Byte 96
\* (the grave accent, which a TLA+ string cannot hold) is written "grave".
Ascii ==
    << " ", "!", "\"", "#", "$", "%", "&", "'", "(", ")", "*", "+", ",", "-", ".", "/",
       "0", "1", "2", "3", "4", "5", "6", "7", "8", "9", ":", ";", "<", "=", ">", "?",
       "@", "A", "B", "C", "D", "E", "F", "G", "H", "I", "J", "K", "L", "M", "N", "O",
       "P", "Q", "R", "S", "T", "U", "V", "W", "X", "Y", "Z", "[", "\\", "]", "^", "_",
       "grave", "a", "b", "c", "d", "e", "f", "g", "h", "i", "j", "k", "l", "m", "n", "o",
       "p", "q", "r", "s", "t", "u", "v", "w", "x", "y", "z", "{", "|", "}", "~" >>

AsciiSet == {Ascii[i] : i \in 1..Len(Ascii)}

\* The byte value of every character of the table, and of tab, LF and CR.
CodeOf ==
    [c \in AsciiSet \cup {"\t", "\n", "\r"} |->
        IF c = "\t" THEN 9
        ELSE IF c = "\n" THEN 10
        ELSE IF c = "\r" THEN 13
        ELSE 31 + (CHOOSE i \in 1..Len(Ascii) : Ascii[i] = c)]

Code(c) == CodeOf[c]

\* `oct as char` pushed onto a String.  A byte outside the character table
\* is written as the one placeholder "\\x"; no input of the model reaches it.
Chr(n) ==
    IF n = 9 THEN "\t"
    ELSE IF n = 10 THEN "\n"
    ELSE IF n = 13 THEN "\r"
    ELSE IF n >= 32 /\ n <= 126 THEN Ascii[n - 31]
    ELSE "\\x"

Digit == {"0", "1", "2", "3", "4", "5", "6", "7", "8", "9"}
Upper == {Ascii[i] : i \in 34..59}
Lower == {Ascii[i] : i \in 66..91}

DigitVal(c) == Code(c) - 48

ToLower(c) == IF c \in Upper THEN Chr(Code(c) + 32) ELSE c

LowerStr(s) == [i \in 1..Len(s) |-> ToLower(s[i])]

\* Rust's s[a..b] on 0-based byte indices.
Slice(s, a, b) == SubSeq(s, a + 1, b)

All(s, P(_)) == \A i \in 1..Len(s) : P(s[i])

is_ascii_digit(b) == b \in Digit

is_numeric(b) == is_ascii_digit(b) \/ b = "." \/ b = "-"

is_alnum(b) ==
    \/ is_numeric(b)
    \/ b \in Upper
    \/ b \in Lower
    \/ b = "_"
    \/ b = "$"
    \/ b = "/"
    \/ b = ":"
    \/ b = "."
    \/ b = "-"

is_alnum_strict(b) == is_alnum(b) /\ b # "-"

is_hex_upper(b) == is_ascii_digit(b) \/ b \in {"A", "B", "C", "D", "E", "F"}

is_ascii_whitespace(b) == b \in {" ", "\t", "\r", "\n"}

(***************************************************************************)
(* Numbers.  An i64 is a TLA+ integer.  An f64 is the decimal m * 10^e     *)
(* with sign bit neg, normalised so that m has no factor 10 (m = 0 gives   *)
(* e = 0), or an infinity, or NaN.  Every literal of the model is short    *)
(* enough to be the shortest decimal of the f64 nearest to it, so two      *)
(* literals denote the same f64 exactly when their normal forms agree.     *)
(***************************************************************************)

\* The decimal digits of i64::MAX; i64::MIN has the last digit one higher.
I64MaxDigits ==
    << "9", "2", "2", "3", "3", "7", "2", "0", "3", "6", "8", "5", "4", "7", "7",
       "5", "8", "0", "7" >>

F64(neg, m, e) == [c |-> "num", neg |-> neg, m |-> m, e |-> e]
F64Inf(neg) == [c |-> "inf", neg |-> neg, m |-> 0, e |-> 0]
F64NaN == [c |-> "nan", neg |-> FALSE, m |-> 0, e |-> 0]

RECURSIVE F64Norm(_, _, _)
F64Norm(neg, m, e) ==
    IF m = 0 THEN F64(neg, 0, 0)
    ELSE IF m % 10 = 0 THEN F64Norm(neg, m \div 10, e + 1)
    ELSE F64(neg, m, e)

\* f64's PartialEq: NaN differs from everything, -0.0 equals 0.0.
F64Eq(a, b) ==
    /\ a.c # "nan"
    /\ b.c # "nan"
    /\ \/ a = b
       \/ a.c = "num" /\ b.c = "num" /\ a.m = 0 /\ b.m = 0

Ok(v) == [ok |-> TRUE, val |-> v]
Err(e) == [ok |-> FALSE, err |-> e]

\* Option<T>
None == [some |-> FALSE, v |-> <<>>]
Some(x) == [some |-> TRUE, v |-> x]

RECURSIVE DigitsNat(_)
DigitsNat(s) ==
    IF s = <<>> THEN 0
    ELSE 10 * DigitsNat(SubSeq(s, 1, Len(s) - 1)) + DigitVal(s[Len(s)])

RECURSIVE StripZeros(_)
StripZeros(s) ==
    IF Len(s) > 1 /\ s[1] = "0" THEN StripZeros(Tail(s)) ELSE s

\* The number of leading decimal digits of s.
RECURSIVE DigitRun(_)
DigitRun(s) ==
    IF s # <<>> /\ s[1] \in Digit THEN 1 + DigitRun(Tail(s)) ELSE 0

\* Whether the magnitude written by the digits d fits an i64 of that sign.
DigitsFit(d, negative) ==
    LET sig == StripZeros(d)
        top == IF negative
               THEN [I64MaxDigits EXCEPT ![19] = "8"]
               ELSE I64MaxDigits
    IN  \/ Len(sig) < 19
        \/ /\ Len(sig) = 19
           /\ \/ sig = top
              \/ \E i \in 1..19 :
                    /\ SubSeq(sig, 1, i - 1) = SubSeq(top, 1, i - 1)
                    /\ DigitVal(sig[i]) < DigitVal(top[i])

\* str::parse::<i64>
parse_i64(s) ==
    IF s = <<>> THEN Err("Empty")
    ELSE IF s \in {<<"+">>, <<"-">>} THEN Err("InvalidDigit")
    ELSE LET negative == s[1] = "-"
             digits == IF s[1] \in {"+", "-"} THEN Tail(s) ELSE s
         IN  IF ~All(digits, is_ascii_digit) THEN Err("InvalidDigit")
             ELSE IF ~DigitsFit(digits, negative)
             THEN Err(IF negative THEN "NegOverflow" ELSE "PosOverflow")
             ELSE Ok(IF negative THEN 0 - DigitsNat(digits) ELSE DigitsNat(digits))

\* The decimal number grammar of str::parse::<f64>, after the sign:
\* digits [. digits] [(e|E) [+|-] digits], with a digit before the exponent.
parse_number(r, negative) ==
    LET n1 == DigitRun(r)
        r1 == SubSeq(r, n1 + 1, Len(r))
        dot == r1 # <<>> /\ r1[1] = "."
        n2 == IF dot THEN DigitRun(Tail(r1)) ELSE 0
        r2 == IF dot THEN SubSeq(r1, n2 + 2, Len(r1)) ELSE r1
        mant == SubSeq(r, 1, n1) \o (IF dot THEN SubSeq(r1, 2, n2 + 1) ELSE <<>>)
        hasexp == r2 # <<>> /\ r2[1] \in {"e", "E"}
        r3 == IF hasexp THEN Tail(r2) ELSE r2
        eneg == hasexp /\ r3 # <<>> /\ r3[1] = "-"
        r4 == IF hasexp /\ r3 # <<>> /\ r3[1] \in {"+", "-"} THEN Tail(r3) ELSE r3
        n3 == IF hasexp THEN DigitRun(r4) ELSE 0
        r5 == SubSeq(r4, n3 + 1, Len(r4))
        ex == IF eneg THEN 0 - DigitsNat(SubSeq(r4, 1, n3)) ELSE DigitsNat(SubSeq(r4, 1, n3))
    IN  IF n1 + n2 = 0 THEN Err("Invalid")
        ELSE IF hasexp /\ n3 = 0 THEN Err("Invalid")
        ELSE IF r5 # <<>> THEN Err("Invalid")
        ELSE Ok(F64Norm(negative, DigitsNat(StripZeros(mant)), ex - n2))

parse_inf_nan(r, negative) ==
    LET l == LowerStr(r)
    IN  IF l \in {<<"i", "n", "f">>, <<"i", "n", "f", "i", "n", "i", "t", "y">>}
        THEN Ok(F64Inf(negative))
        ELSE IF l = <<"n", "a", "n">> THEN Ok(F64NaN)
        ELSE Err("Invalid")

\* str::parse::<f64>
parse_f64(s) ==
    IF s = <<>> THEN Err("Empty")
    ELSE LET negative == s[1] = "-"
             r == IF s[1] \in {"+", "-"} THEN Tail(s) ELSE s
         IN  IF r = <<>> THEN Err("Invalid")
             ELSE IF parse_number(r, negative).ok THEN parse_number(r, negative)
             ELSE parse_inf_nan(r, negative)

RECURSIVE FmtNat(_)
FmtNat(n) ==
    IF n < 10 THEN <<Chr(48 + n)>> ELSE FmtNat(n \div 10) \o <<Chr(48 + (n % 10))>>

Zeros(k) == [i \in 1..k |-> "0"]

\* Display for i64.
fmt_i64(i) == IF i < 0 THEN <<"-">> \o FmtNat(0 - i) ELSE FmtNat(i)

\* Display for f64: the shortest decimal, never an exponent, no ".0".
fmt_f64(f) ==
    IF f.c = "nan" THEN <<"N", "a", "N">>
    ELSE IF f.c = "inf"
    THEN (IF f.neg THEN <<"-">> ELSE <<>>) \o <<"i", "n", "f">>
    ELSE LET d == FmtNat(f.m)
             n == Len(d)
             k == 0 - f.e
             body == IF f.e >= 0 THEN d \o Zeros(f.e)
                     ELSE IF n > k
                     THEN SubSeq(d, 1, n - k) \o <<".">> \o SubSeq(d, n - k + 1, n)
                     ELSE <<"0", ".">> \o Zeros(k - n) \o d
         IN  (IF f.neg THEN <<"-">> ELSE <<>>) \o body

(***************************************************************************)
(* The Plist value model                                                   *)
(***************************************************************************)

\* enum Plist.  Values of different variants are never compared with =:
\* PlistSame is structural identity, PlistEq the derived PartialEq.
PString(s) == [t |-> "String", v |-> s]
PInteger(i) == [t |-> "Integer", v |-> i]
PFloat(f) == [t |-> "Float", v |-> f]
PArray(a) == [t |-> "Array", v |-> a]
PDict(d) == [t |-> "Dictionary", v |-> d]

EmptyMap == [k \in {} |-> 0]

\* an insert that keeps the value a key already has
Insert_keep_first(d, k, v) ==
    [x \in DOMAIN d \cup {k} |-> IF x \in DOMAIN d THEN d[x] ELSE v]

\* HashMap::insert
Insert(d, k, v) == [x \in DOMAIN d \cup {k} |-> IF x = k THEN v ELSE d[x]]

\* a remove that leaves the key in the map
Remove_nothing(d, k) == d

\* HashMap::remove, the map that is left
Remove(d, k) == [x \in DOMAIN d \ {k} |-> d[x]]

RECURSIVE PlistEq(_, _)
PlistEq(a, b) ==
    /\ a.t = b.t
    /\ CASE a.t = "Float" -> F64Eq(a.v, b.v)
         [] a.t = "Array" ->
                /\ Len(a.v) = Len(b.v)
                /\ \A i \in 1..Len(a.v) : PlistEq(a.v[i], b.v[i])
         [] a.t = "Dictionary" ->
                /\ DOMAIN a.v = DOMAIN b.v
                /\ \A k \in DOMAIN a.v : PlistEq(a.v[k], b.v[k])
         [] OTHER -> a.v = b.v

RECURSIVE PlistSame(_, _)
PlistSame(a, b) ==
    /\ a.t = b.t
    /\ CASE a.t = "Array" ->
                /\ Len(a.v) = Len(b.v)
                /\ \A i \in 1..Len(a.v) : PlistSame(a.v[i], b.v[i])
         [] a.t = "Dictionary" ->
                /\ DOMAIN a.v = DOMAIN b.v
                /\ \A k \in DOMAIN a.v : PlistSame(a.v[k], b.v[k])
         [] OTHER -> a.v = b.v

(***************************************************************************)
(* Lexer                                                                   *)
(***************************************************************************)

PErr(e, ch) == [ok |-> FALSE, err |-> e, ch |-> ch]
POk(v, ix) == [ok |-> TRUE, val |-> v, ix |-> ix]

Token(tk, s) == [tk |-> tk, s |-> s]
LexOk(tok, ix) == [ok |-> TRUE, tok |-> tok, ix |-> ix]

\* numeric_ok without its leading-zero rule.
numeric_ok_no_leading_zero(s) ==
    IF s = <<>> THEN FALSE
    ELSE IF All(s, is_hex_upper) /\ ~All(s, is_ascii_digit) THEN FALSE
    ELSE TRUE

numeric_ok(s) ==
    IF s = <<>> THEN FALSE
    ELSE IF All(s, is_hex_upper) /\ ~All(s, is_ascii_digit) THEN FALSE
    ELSE IF Len(s) > 1 /\ s[1] = "0" THEN ~All(s, is_ascii_digit)
    ELSE TRUE

RECURSIVE skip_ws(_, _)
skip_ws(s, ix) ==
    IF ix < Len(s) /\ is_ascii_whitespace(s[ix + 1]) THEN skip_ws(s, ix + 1) ELSE ix

\* The loop of escape_string's quoted branch: the text pushed for s[start..],
\* scanning from ix.
RECURSIVE escape_loop(_, _, _)
escape_loop(s, start, ix) ==
    IF ix < Len(s)
    THEN IF s[ix + 1] \in {"\"", "\\"}
         THEN Slice(s, start, ix) \o <<"\\">> \o escape_loop(s, ix, ix + 1)
         ELSE escape_loop(s, start, ix + 1)
    ELSE Slice(s, start, Len(s))

\* escape_string that drops the quotes of every safe string, numeric or not.
escape_string_always_bare(s) ==
    IF s # <<>> /\ All(s, is_alnum_strict)
    THEN s
    ELSE <<"\"">> \o escape_loop(s, 0, 0) \o <<"\"">>

\* escape_string(buf, s): the text appended to buf.
escape_string(s) ==
    IF s # <<>> /\ All(s, is_alnum_strict)
    THEN IF parse_f64(s).ok THEN <<"\"">> \o s \o <<"\"">> ELSE s
    ELSE <<"\"">> \o escape_loop(s, 0, 0) \o <<"\"">>

\* The quoted-string loop of Token::lex, at byte ix with the pending slice
\* starting at cow_start and the unescaped text so far in buf.
RECURSIVE lex_string(_, _, _, _)
lex_string(s, ix, cow_start, buf) ==
    IF ix >= Len(s) THEN PErr("UnclosedString", "")
    ELSE LET b == s[ix + 1]
         IN  IF b = "\""
             THEN LET string == IF buf = <<>>
                                THEN Slice(s, cow_start, ix)
                                ELSE buf \o Slice(s, cow_start, ix)
                  IN  LexOk(Token("String", string), ix + 1)
             ELSE IF b = "\\"
             THEN LET buf1 == buf \o Slice(s, cow_start, ix)
                      ix1 == ix + 1
                  IN  IF ix1 = Len(s) THEN PErr("UnclosedString", "")
                      ELSE LET e == s[ix1 + 1]
                           IN  IF e \in {"\"", "\\"}
                               THEN lex_string(s, ix1 + 1, ix1, buf1)
                               ELSE IF e = "n"
                               THEN lex_string(s, ix1 + 1, ix1 + 1, buf1 \o <<"\n">>)
                               ELSE IF e = "r"
                               THEN lex_string(s, ix1 + 1, ix1 + 1, buf1 \o <<"\r">>)
                               ELSE IF e \in {"0", "1", "2", "3"} /\ ix1 + 2 < Len(s)
                               THEN LET b1 == s[ix1 + 2]
                                        b2 == s[ix1 + 3]
                                        octal == {"0", "1", "2", "3", "4", "5", "6", "7"}
                                        oct == DigitVal(e) * 64 + DigitVal(b1) * 8
                                                 + DigitVal(b2)
                                    IN  IF b1 \in octal /\ b2 \in octal
                                        THEN lex_string(s, ix1 + 3, ix1 + 3,
                                                        buf1 \o <<Chr(oct)>>)
                                        ELSE PErr("UnknownEscape", "")
                               ELSE PErr("UnknownEscape", "")
             ELSE lex_string(s, ix + 1, cow_start, buf)

\* The end of the run of is_alnum bytes that starts at ix.
RECURSIVE atom_end(_, _)
atom_end(s, ix) ==
    IF ix < Len(s) /\ is_alnum(s[ix + 1]) THEN atom_end(s, ix + 1) ELSE ix

\* Token::lex
lex(s, ix) ==
    LET start == skip_ws(s, ix)
    IN  IF start = Len(s) THEN LexOk(Token("Eof", <<>>), start)
        ELSE LET b == s[start + 1]
             IN  IF b = "{" THEN LexOk(Token("OpenBrace", <<>>), start + 1)
                 ELSE IF b = "(" THEN LexOk(Token("OpenParen", <<>>), start + 1)
                 ELSE IF b = "\"" THEN lex_string(s, start + 1, start + 1, <<>>)
                 ELSE IF is_alnum(b)
                 THEN LET end == atom_end(s, start + 1)
                      IN  LexOk(Token("Atom", Slice(s, start, end)), end)
                 ELSE PErr("UnexpectedChar", b)

\* try_into_string that takes any token as a string.
try_into_string_any(tok) == Ok(tok.s)

\* Token::try_into_string
try_into_string(tok) ==
    IF tok.tk \in {"Atom", "String"} THEN Ok(tok.s) ELSE PErr("NotAString", "")

\* Token::expect: Some(ix + 1) or None, None written -1.
expect(s, ix, delim) ==
    LET i == skip_ws(s, ix)
    IN  IF i < Len(s) /\ s[i + 1] = delim THEN i + 1 ELSE 0 - 1

(***************************************************************************)
(* Parser                                                                  *)
(***************************************************************************)

\* Plist::parse_atom
parse_atom(s) ==
    IF numeric_ok(s) /\ parse_i64(s).ok THEN PInteger(parse_i64(s).val)
    ELSE IF numeric_ok(s) /\ parse_f64(s).ok THEN PFloat(parse_f64(s).val)
    ELSE PString(s)

RECURSIVE parse_rec(_, _), parse_dict(_, _, _), parse_array(_, _, _)

\* Plist::parse_rec
parse_rec(s, ix0) ==
    LET l == lex(s, ix0)
    IN  IF ~l.ok THEN l
        ELSE CASE l.tok.tk = "Atom" -> POk(parse_atom(l.tok.s), l.ix)
               [] l.tok.tk = "String" -> POk(PString(l.tok.s), l.ix)
               [] l.tok.tk = "OpenBrace" -> parse_dict(s, l.ix, EmptyMap)
               [] l.tok.tk = "OpenParen" ->
                      IF expect(s, l.ix, ")") >= 0
                      THEN POk(PArray(<<>>), expect(s, l.ix, ")"))
                      ELSE parse_array(s, l.ix, <<>>)
               [] OTHER -> PErr("SomethingWentWrong", "")

\* The loop of parse_rec's OpenBrace arm.
parse_dict(s, ix, dict) ==
    IF expect(s, ix, "}") >= 0 THEN POk(PDict(dict), expect(s, ix, "}"))
    ELSE LET k == lex(s, ix)
         IN  IF ~k.ok THEN k
             ELSE LET key_str == try_into_string(k.tok)
                      next == expect(s, k.ix, "=")
                  IN  IF ~key_str.ok THEN key_str
                      ELSE IF next < 0 THEN PErr("ExpectedEquals", "")
                      ELSE LET val == parse_rec(s, next)
                           IN  IF ~val.ok THEN val
                               ELSE IF expect(s, val.ix, ";") >= 0
                               THEN parse_dict(s, expect(s, val.ix, ";"),
                                               Insert(dict, key_str.val, val.val))
                               ELSE PErr("ExpectedSemicolon", "")

\* The loop of parse_rec's OpenParen arm.
parse_array(s, ix, list) ==
    LET val == parse_rec(s, ix)
    IN  IF ~val.ok THEN val
        ELSE IF expect(s, val.ix, ")") >= 0
        THEN POk(PArray(Append(list, val.val)), expect(s, val.ix, ")"))
        ELSE IF expect(s, val.ix, ",") >= 0
        THEN parse_array(s, expect(s, val.ix, ","), Append(list, val.val))
        ELSE PErr("ExpectedComma", "")

\* parse that asks for the end of the text after the value
parse_to_eof(s) ==
    LET r == parse_rec(s, 0)
    IN  IF ~r.ok THEN r
        ELSE IF skip_ws(s, r.ix) = Len(s) THEN Ok(r.val)
        ELSE PErr("UnexpectedChar", s[skip_ws(s, r.ix) + 1])

\* Plist::parse
parse(s) ==
    LET r == parse_rec(s, 0)
    IN  IF r.ok THEN Ok(r.val) ELSE r

(***************************************************************************)
(* Serializer                                                              *)
(***************************************************************************)

\* Ord for str: byte-wise lexicographic order.
RECURSIVE StrLess(_, _)
StrLess(a, b) ==
    IF b = <<>> THEN FALSE
    ELSE IF a = <<>> THEN TRUE
    ELSE IF a[1] = b[1] THEN StrLess(Tail(a), Tail(b))
    ELSE Code(a[1]) < Code(b[1])

\* the keys in descending order
RECURSIVE SortKeys_descending(_)
SortKeys_descending(K) ==
    IF K = {} THEN <<>>
    ELSE LET m == CHOOSE x \in K : \A y \in K \ {x} : StrLess(y, x)
         IN  <<m>> \o SortKeys_descending(K \ {m})

\* keys.sort()
RECURSIVE SortKeys(_)
SortKeys(K) ==
    IF K = {} THEN <<>>
    ELSE LET m == CHOOSE x \in K : \A y \in K \ {x} : StrLess(x, y)
         IN  <<m>> \o SortKeys(K \ {m})

RECURSIVE push_to_string(_), push_array(_, _), push_dict(_, _)

\* Plist::push_to_string: the text appended.
push_to_string(p) ==
    CASE p.t = "Array" -> <<"(">> \o push_array(p.v, 1) \o <<"\n", ")">>
      [] p.t = "Dictionary" ->
             <<"{", "\n">> \o push_dict(p.v, SortKeys(DOMAIN p.v)) \o <<"}">>
      [] p.t = "String" -> escape_string(p.v)
      [] p.t = "Integer" -> fmt_i64(p.v)
      [] p.t = "Float" -> fmt_f64(p.v)

push_array(a, i) ==
    IF i > Len(a) THEN <<>>
    ELSE (IF i = 1 THEN <<"\n">> ELSE <<",", "\n">>)
            \o push_to_string(a[i]) \o push_array(a, i + 1)

push_dict(d, keys) ==
    IF keys = <<>> THEN <<>>
    ELSE escape_string(keys[1]) \o <<" ", "=", " ">> \o push_to_string(d[keys[1]])
            \o <<";", "\n">> \o push_dict(d, Tail(keys))

(***************************************************************************)
(* Scalar converters.  A conversion returns a value, returns an error      *)
(* value, or panics: an error is the GlyphsFromPlistError variant e that   *)
(* the ? operator wraps the converter's own error d in, with payload a.    *)
(***************************************************************************)

CvOk(v) == [st |-> "Ok", val |-> v]
CvErr(e, d, a) == [st |-> "Err", e |-> e, d |-> d, a |-> a]
CvPanic(m) == [st |-> "Panic", msg |-> m]

\* Plist::as_i64
as_i64(p) == IF p.t = "Integer" THEN Some(p.v) ELSE None

\* Plist::as_f64; an integer of the model is exactly representable.
as_f64(p) ==
    CASE p.t = "Integer" -> Some(F64Norm(p.v < 0, IF p.v < 0 THEN 0 - p.v ELSE p.v, 0))
      [] p.t = "Float" -> Some(p.v)
      [] OTHER -> None

\* Plist::as_str
as_str(p) == IF p.t = "String" THEN Some(p.v) ELSE None

\* Plist::into_string
into_string(p) == IF p.t = "String" THEN CvOk(p.v) ELSE CvPanic("expected string")

\* Plist::into_vec
into_vec(p) == IF p.t = "Array" THEN CvOk(p.v) ELSE CvPanic("expected array")

\* Plist::into_hashmap
into_hashmap(p) ==
    IF p.t = "Dictionary" THEN CvOk(p.v) ELSE CvPanic("expected dictionary")

\* TryFrom<Plist> for bool
bool_try_from(p) ==
    IF ~as_i64(p).some THEN CvErr("Bool", "WrongVariant", 0)
    ELSE CASE as_i64(p).v = 0 -> CvOk(FALSE)
           [] as_i64(p).v = 1 -> CvOk(TRUE)
           [] OTHER -> CvErr("Bool", "BadNumber", as_i64(p).v)

\* TryFrom<Plist> for i64
i64_try_from(p) ==
    IF as_i64(p).some THEN CvOk(as_i64(p).v) ELSE CvErr("Variant", "integer", 0)

U16Max == 65535

\* A conversion to u16 that truncates to the low 16 bits.
u16_try_from_wrapping(p) ==
    IF p.t = "Integer" THEN CvOk(p.v % (U16Max + 1))
    ELSE CvErr("DownsizeToU16", "WrongVariant", 0)

\* TryFrom<Plist> for u16
u16_try_from(p) ==
    IF p.t = "Integer"
    THEN IF p.v >= 0 /\ p.v <= U16Max
         THEN CvOk(p.v)
         ELSE CvErr("DownsizeToU16", "OutOfBounds", p.v)
    ELSE CvErr("DownsizeToU16", "WrongVariant", 0)

\* TryFrom<Plist> for f64
f64_try_from(p) ==
    IF as_f64(p).some THEN CvOk(as_f64(p).v) ELSE CvErr("Variant", "float", 0)

\* ToPlist for bool
bool_to_plist(b) == PInteger(IF b THEN 1 ELSE 0)

\* floor(f64::EPSILON * 10^(16 + j)) for j = 0..9, f64::EPSILON being
\* 2.220446049250313e-16; an f64 mantissa of the model is below the last.
EpsilonFloor ==
    << 2, 22, 222, 2220, 22204, 222044, 2220446, 22204460, 222044604, 2147483647 >>

RECURSIVE Pow10(_)
Pow10(k) == IF k = 0 THEN 1 ELSE 10 * Pow10(k - 1)

\* (self - self.round()).abs() < f64::EPSILON for a finite self.  With 15 or
\* fewer decimals the distance to the nearest integer is at least 1e-15;
\* with 16 or more the value of the model is below 1e-6 and rounds to 0.
near_integer(f) ==
    \/ f.e >= 0
    \/ /\ f.e <= 0 - 16
       /\ \/ f.e <= 0 - 26
          \/ f.m <= EpsilonFloor[0 - f.e - 15]

\* ToPlist for f64: "opportunistically output integers".
f64_to_plist(f) ==
    IF f.c = "num" /\ near_integer(f)
    THEN PInteger(IF f.e < 0 THEN 0
                  ELSE IF f.neg THEN 0 - f.m * Pow10(f.e) ELSE f.m * Pow10(f.e))
    ELSE PFloat(f)


\* kurbo::Point and Scale: a pair of f64.
Pair(x, y) == [x |-> x, y |-> y]

\* TryFrom<Plist> for Point
point_try_from(p) ==
    IF p.t # "Array" THEN CvErr("Point", "WrongVariant", 0)
    ELSE IF Len(p.v) # 2 THEN CvErr("Point", "WrongVariant", 0)
    ELSE IF ~as_f64(p.v[1]).some THEN CvErr("Point", "NotFloatX", 0)
    ELSE IF ~as_f64(p.v[2]).some THEN CvErr("Point", "NotFloatY", 0)
    ELSE CvOk(Pair(as_f64(p.v[1]).v, as_f64(p.v[2]).v))

\* ToPlist for Point: From<f64> for Plist, without the integer narrowing.
point_to_plist(pt) == PArray(<<PFloat(pt.x), PFloat(pt.y)>>)

\* TryFrom<Plist> for Scale
scale_try_from(p) ==
    IF p.t # "Array" THEN CvErr("Scale", "WrongVariant", 0)
    ELSE IF Len(p.v) # 2 THEN CvErr("Scale", "WrongVariant", 0)
    ELSE IF ~as_f64(p.v[1]).some THEN CvErr("Scale", "NotFloatHorizontal", 0)
    ELSE IF ~as_f64(p.v[2]).some THEN CvErr("Scale", "NotFloatVertical", 0)
    ELSE CvOk(Pair(as_f64(p.v[1]).v, as_f64(p.v[2]).v))

\* ToPlist for Scale
scale_to_plist(sc) == PArray(<<PFloat(sc.x), PFloat(sc.y)>>)

U8Max == 255

\* The first element of a colour array that is not a u8, or 0.
color_bad_element(a) ==
    LET bad == {i \in 1..Len(a) :
                    \/ ~as_i64(a[i]).some
                    \/ as_i64(a[i]).v < 0
                    \/ as_i64(a[i]).v > U8Max}
    IN  IF bad = {} THEN 0 ELSE CHOOSE i \in bad : \A j \in bad : i <= j

\* A Color conversion that looks at the length of the array first.
color_try_from_length_first(p) ==
    CASE p.t = "Integer" -> CvOk([c |-> "Index", v |-> <<p.v>>])
      [] p.t = "Array" /\ Len(p.v) \notin {2, 4, 5} ->
            CvErr("Color", "UnsupportedArray", 0)
      [] p.t = "Array" /\ color_bad_element(p.v) # 0 ->
            CvErr("Color", "WrongVariant", 0)
      [] p.t = "Array" ->
            CvOk([c |-> IF Len(p.v) = 2 THEN "GreyAlpha"
                        ELSE IF Len(p.v) = 4 THEN "Rgba" ELSE "Cmyka",
                  v |-> [j \in 1..Len(p.v) |-> p.v[j].v]])
      [] OTHER -> CvErr("Color", "WrongVariant", 0)

\* TryFrom<Plist> for Color
color_try_from(p) ==
    CASE p.t = "Integer" -> CvOk([c |-> "Index", v |-> <<p.v>>])
      [] p.t = "Array" ->
            LET i == color_bad_element(p.v)
                numbers == [j \in 1..Len(p.v) |-> p.v[j].v]
            IN  IF i # 0
                THEN IF ~as_i64(p.v[i]).some
                     THEN CvErr("Color", "WrongVariant", 0)
                     ELSE CvErr("Color", "OutOfBounds", as_i64(p.v[i]).v)
                ELSE CASE Len(numbers) = 2 -> CvOk([c |-> "GreyAlpha", v |-> numbers])
                       [] Len(numbers) = 4 -> CvOk([c |-> "Rgba", v |-> numbers])
                       [] Len(numbers) = 5 -> CvOk([c |-> "Cmyka", v |-> numbers])
                       [] OTHER -> CvErr("Color", "UnsupportedArray", 0)
      [] OTHER -> CvErr("Color", "WrongVariant", 0)

\* ToPlist for Color
color_to_plist(col) ==
    IF col.c = "Index" THEN PInteger(col.v[1])
    ELSE PArray([j \in 1..Len(col.v) |-> PInteger(col.v[j])])

\* TryFrom<Plist> for NodeType, through FromStr; a NodeType is its tag.
node_type_try_from(p) ==
    IF ~as_str(p).some THEN CvErr("Node", "InvalidType", 0)
    ELSE IF as_str(p).v \in
            { <<"l">>, <<"l", "s">>, <<"c">>, <<"c", "s">>, <<"q">>, <<"q", "s">>, <<"o">> }
    THEN CvOk(as_str(p).v)
    ELSE CvErr("Node", "InvalidType", 0)

\* TryFrom<Plist> for MetricType; a MetricType is its string.
metric_type_try_from(p) ==
    IF /\ p.t = "String"
       /\ p.v \in
            { <<"a", "s", "c", "e", "n", "d", "e", "r">>,
              <<"b", "a", "s", "e", "l", "i", "n", "e">>,
              <<"b", "o", "d", "y", "H", "e", "i", "g", "h", "t">>,
              <<"c", "a", "p", " ", "h", "e", "i", "g", "h", "t">>,
              <<"d", "e", "s", "c", "e", "n", "d", "e", "r">>,
              <<"i", "t", "a", "l", "i", "c", " ", "a", "n", "g", "l", "e">>,
              <<"m", "i", "d", "H", "e", "i", "g", "h", "t">>,
              <<"s", "l", "a", "n", "t", " ", "h", "e", "i", "g", "h", "t">>,
              <<"t", "o", "p", "H", "e", "i", "g", "h", "t">>,
              <<"x", "-", "h", "e", "i", "g", "h", "t">> }
    THEN CvOk(p.v)
    ELSE CvErr("MetricType", "MetricTypeConversionError", 0)

\* TryFrom<Plist> for norad::Name.  Name::new rejects the empty string and
\* control characters, and the conversion panics on that error.
name_try_from(p) ==
    CASE p.t = "String" ->
            IF p.v # <<>> /\ All(p.v, LAMBDA b : b \in AsciiSet)
            THEN CvOk(p.v)
            ELSE CvPanic("glyph name valid in Glyphs but not norad")
      [] p.t = "Float" /\ p.v.c = "inf" -> CvOk(<<"i", "n", "f", "i", "n", "i", "t", "y">>)
      [] p.t = "Float" /\ p.v.c = "nan" -> CvOk(<<"n", "a", "n">>)
      [] OTHER -> CvErr("Name", "NameConversionError", 0)

\* TryFrom<Plist> for InstanceType
instance_type_try_from(p) ==
    IF p.t = "String" /\ p.v = <<"v", "a", "r", "i", "a", "b", "l", "e">>
    THEN CvOk("Variable")
    ELSE CvErr("InstanceType", "InstanceTypeConversionError", 0)

\* ToPlist for InstanceType
instance_type_to_plist(x) == PString(<<"v", "a", "r", "i", "a", "b", "l", "e">>)

(***************************************************************************)
(* Field descriptors: what the derive macros read from a struct.  A type   *)
(* is a descriptor [k, of]; a typed record is a function from the field    *)
(* identifiers of its struct to their values.                              *)
(***************************************************************************)

Ty(k) == [k |-> k, of |-> <<>>]
TyOf(k, t) == [k |-> k, of |-> t]

\* enum PlistAttributeDefault
NoDefault == [c |-> "None", v |-> <<>>]
DefaultTrait == [c |-> "DefaultTrait", v |-> <<>>]
DefaultExpr(x) == [c |-> "Expr", v |-> x]

\* A named field with its type and its #[plist(...)] options.
Fld(ident, ty, rename, default, always) ==
    [ident |-> ident, ty |-> ty, rest |-> FALSE,
     serialised_name |-> rename, default |-> default, always_serialise |-> always]

\* A field marked #[plist(rest)].
RestFld(ident) ==
    [ident |-> ident, ty |-> Ty("Map"), rest |-> TRUE,
     serialised_name |-> None, default |-> NoDefault, always_serialise |-> FALSE]

\* The fields of the structs that derive FromPlist and ToPlist, in
\* declaration order, with their #[plist(...)] attributes.
Fields(R) ==
    CASE \* struct FooBar of tests::error_on_unexpected_fields
         R = "FooBar" ->
          << Fld(<<"_", "f", "o", "o">>,
                 Ty("String"), None, NoDefault, FALSE) >>
      [] \* struct Font; the conversions of the kerning maps are not modelled
         R = "Font" ->
          << Fld(<<"a", "p", "p", "_", "v", "e", "r", "s", "i", "o", "n">>,
                 Ty("String"), Some(<<".", "a", "p", "p", "V", "e", "r", "s", "i", "o", "n">>), NoDefault, TRUE),
             Fld(<<"f", "o", "r", "m", "a", "t", "_", "v", "e", "r", "s", "i", "o", "n">>,
                 TyOf("Option", Ty("i64")), Some(<<".", "f", "o", "r", "m", "a", "t", "V", "e", "r", "s", "i", "o", "n">>), NoDefault, TRUE),
             Fld(<<"d", "a", "t", "e">>,
                 Ty("String"), None, NoDefault, TRUE),
             Fld(<<"f", "a", "m", "i", "l", "y", "_", "n", "a", "m", "e">>,
                 Ty("String"), None, NoDefault, TRUE),
             Fld(<<"v", "e", "r", "s", "i", "o", "n", "_", "m", "a", "j", "o", "r">>,
                 Ty("i64"), None, NoDefault, TRUE),
             Fld(<<"v", "e", "r", "s", "i", "o", "n", "_", "m", "i", "n", "o", "r">>,
                 Ty("i64"), None, NoDefault, TRUE),
             Fld(<<"u", "n", "i", "t", "s", "_", "p", "e", "r", "_", "e", "m">>,
                 Ty("u16"), None, NoDefault, TRUE),
             Fld(<<"g", "l", "y", "p", "h", "s">>,
                 TyOf("Vec", TyOf("Record", "Glyph")), None, NoDefault, TRUE),
             Fld(<<"f", "o", "n", "t", "_", "m", "a", "s", "t", "e", "r">>,
                 TyOf("Vec", TyOf("Record", "FontMaster")), None, NoDefault, TRUE),
             Fld(<<"m", "e", "t", "r", "i", "c", "s">>,
                 TyOf("Vec", TyOf("Record", "Metric")), None, NoDefault, TRUE),
             Fld(<<"a", "x", "e", "s">>,
                 TyOf("Option", TyOf("Vec", TyOf("Record", "Axis"))), None, NoDefault, FALSE),
             Fld(<<"n", "u", "m", "b", "e", "r", "s">>,
                 TyOf("Option", TyOf("Vec", TyOf("Record", "FontNumbers"))), None, NoDefault, FALSE),
             Fld(<<"s", "t", "e", "m", "s">>,
                 TyOf("Option", TyOf("Vec", TyOf("Record", "FontStems"))), None, NoDefault, FALSE),
             Fld(<<"s", "e", "t", "t", "i", "n", "g", "s">>,
                 TyOf("Option", TyOf("Record", "Settings")), None, NoDefault, FALSE),
             Fld(<<"i", "n", "s", "t", "a", "n", "c", "e", "s">>,
                 TyOf("Option", TyOf("Vec", TyOf("Record", "Instance"))), None, NoDefault, FALSE),
             Fld(<<"k", "e", "r", "n", "i", "n", "g", "_", "l", "t", "r">>,
                 TyOf("Option", Ty("KerningMap")), Some(<<"k", "e", "r", "n", "i", "n", "g", "L", "T", "R">>), NoDefault, FALSE),
             Fld(<<"k", "e", "r", "n", "i", "n", "g", "_", "r", "t", "l">>,
                 TyOf("Option", Ty("KerningMap")), Some(<<"k", "e", "r", "n", "i", "n", "g", "R", "T", "L">>), NoDefault, FALSE),
             Fld(<<"k", "e", "r", "n", "i", "n", "g", "_", "v", "e", "r", "t", "i", "c", "a", "l">>,
                 TyOf("Option", Ty("KerningMap")), None, NoDefault, FALSE),
             Fld(<<"u", "s", "e", "r", "_", "d", "a", "t", "a">>,
                 TyOf("Option", Ty("Map")), None, NoDefault, FALSE),
             RestFld(<<"o", "t", "h", "e", "r", "_", "s", "t", "u", "f", "f">>) >>
      [] \* struct Axis
         R = "Axis" ->
          << Fld(<<"n", "a", "m", "e">>,
                 Ty("String"), None, NoDefault, TRUE),
             Fld(<<"t", "a", "g">>,
                 Ty("String"), None, NoDefault, TRUE),
             Fld(<<"h", "i", "d", "d", "e", "n">>,
                 Ty("bool"), None, DefaultTrait, FALSE) >>
      [] \* struct Metric
         R = "Metric" ->
          << Fld(<<"f", "i", "l", "t", "e", "r">>,
                 TyOf("Option", Ty("String")), None, NoDefault, FALSE),
             Fld(<<"n", "a", "m", "e">>,
                 TyOf("Option", Ty("String")), None, NoDefault, FALSE),
             Fld(<<"r", "#", "t", "y", "p", "e">>,
                 TyOf("Option", Ty("MetricType")), None, NoDefault, FALSE) >>
      [] \* struct FontNumbers
         R = "FontNumbers" ->
          << Fld(<<"n", "a", "m", "e">>,
                 Ty("String"), None, NoDefault, FALSE) >>
      [] \* struct FontStems
         R = "FontStems" ->
          << Fld(<<"n", "a", "m", "e">>,
                 Ty("String"), None, NoDefault, FALSE),
             Fld(<<"f", "i", "l", "t", "e", "r">>,
                 TyOf("Option", Ty("String")), None, NoDefault, FALSE),
             Fld(<<"h", "o", "r", "i", "z", "o", "n", "t", "a", "l">>,
                 Ty("bool"), None, DefaultTrait, FALSE) >>
      [] \* struct Settings
         R = "Settings" ->
          << Fld(<<"d", "i", "s", "a", "b", "l", "e", "s", "_", "a", "u", "t", "o", "m", "a", "t", "i", "c", "_", "a", "l", "i", "g", "n", "m", "e", "n", "t">>,
                 Ty("bool"), None, DefaultTrait, FALSE),
             Fld(<<"d", "i", "s", "a", "b", "l", "e", "s", "_", "n", "i", "c", "e", "_", "n", "a", "m", "e", "s">>,
                 Ty("bool"), None, DefaultTrait, FALSE),
             RestFld(<<"o", "t", "h", "e", "r", "_", "s", "t", "u", "f", "f">>) >>
      [] \* struct Path
         R = "Path" ->
          << Fld(<<"a", "t", "t", "r">>,
                 TyOf("Option", TyOf("Record", "PathAttrs")), None, NoDefault, FALSE),
             Fld(<<"c", "l", "o", "s", "e", "d">>,
                 Ty("bool"), None, DefaultExpr(TRUE), TRUE),
             Fld(<<"n", "o", "d", "e", "s">>,
                 TyOf("Vec", Ty("Node")), None, NoDefault, FALSE) >>
      [] \* struct PathAttrs
         R = "PathAttrs" ->
          << Fld(<<"l", "i", "n", "e", "_", "c", "a", "p", "_", "s", "t", "a", "r", "t">>,
                 TyOf("Option", Ty("f64")), None, NoDefault, FALSE),
             Fld(<<"l", "i", "n", "e", "_", "c", "a", "p", "_", "e", "n", "d">>,
                 TyOf("Option", Ty("f64")), None, NoDefault, FALSE),
             Fld(<<"s", "t", "r", "o", "k", "e", "_", "p", "o", "s">>,
                 TyOf("Option", Ty("i64")), None, NoDefault, FALSE),
             Fld(<<"s", "t", "r", "o", "k", "e", "_", "h", "e", "i", "g", "h", "t">>,
                 TyOf("Option", Ty("f64")), None, NoDefault, FALSE),
             Fld(<<"s", "t", "r", "o", "k", "e", "_", "w", "i", "d", "t", "h">>,
                 TyOf("Option", Ty("f64")), None, NoDefault, FALSE),
             Fld(<<"s", "t", "r", "o", "k", "e", "_", "c", "o", "l", "o", "r">>,
                 TyOf("Option", TyOf("Vec", Ty("i64"))), None, NoDefault, FALSE),
             Fld(<<"m", "a", "s", "k">>,
                 TyOf("Option", Ty("i64")), None, NoDefault, FALSE),
             Fld(<<"f", "i", "l", "l">>,
                 TyOf("Option", Ty("i64")), None, NoDefault, FALSE),
             Fld(<<"f", "i", "l", "l", "_", "c", "o", "l", "o", "r">>,
                 TyOf("Option", TyOf("Vec", Ty("i64"))), None, NoDefault, FALSE),
             Fld(<<"s", "h", "a", "d", "o", "w">>,
                 TyOf("Option", TyOf("Record", "PathShadow")), None, NoDefault, FALSE),
             Fld(<<"g", "r", "a", "d", "i", "e", "n", "t">>,
                 TyOf("Option", TyOf("Record", "PathGradient")), None, NoDefault, FALSE) >>
      [] \* struct PathShadow
         R = "PathShadow" ->
          << Fld(<<"b", "l", "u", "r">>,
                 Ty("String"), None, NoDefault, FALSE),
             Fld(<<"c", "o", "l", "o", "r">>,
                 TyOf("Vec", Ty("i64")), None, NoDefault, FALSE),
             Fld(<<"o", "f", "f", "s", "e", "t", "_", "x">>,
                 Ty("String"), None, NoDefault, FALSE),
             Fld(<<"o", "f", "f", "s", "e", "t", "_", "y">>,
                 Ty("String"), None, NoDefault, FALSE) >>
      [] \* struct PathGradient
         R = "PathGradient" ->
          << Fld(<<"c", "o", "l", "o", "r", "s">>,
                 TyOf("Vec", TyOf("Vec", Ty("Color"))), None, NoDefault, FALSE),
             Fld(<<"s", "t", "a", "r", "t">>,
                 Ty("Point"), None, NoDefault, FALSE),
             Fld(<<"e", "n", "d">>,
                 Ty("Point"), None, NoDefault, FALSE),
             Fld(<<"r", "#", "t", "y", "p", "e">>,
                 Ty("String"), None, NoDefault, FALSE) >>
      [] \* struct NodeAttrs
         R = "NodeAttrs" ->
          << Fld(<<"n", "a", "m", "e">>,
                 TyOf("Option", Ty("String")), None, NoDefault, FALSE),
             RestFld(<<"o", "t", "h", "e", "r", "_", "s", "t", "u", "f", "f">>) >>
      [] \* struct Component
         R = "Component" ->
          << Fld(<<"r", "e", "f", "e", "r", "e", "n", "c", "e">>,
                 Ty("String"), Some(<<"r", "e", "f">>), NoDefault, TRUE),
             Fld(<<"r", "o", "t", "a", "t", "i", "o", "n">>,
                 TyOf("Option", Ty("f64")), Some(<<"a", "n", "g", "l", "e">>), NoDefault, FALSE),
             Fld(<<"p", "o", "s">>,
                 TyOf("Option", Ty("Point")), None, NoDefault, FALSE),
             Fld(<<"s", "c", "a", "l", "e">>,
                 TyOf("Option", Ty("Scale")), None, NoDefault, FALSE),
             Fld(<<"s", "l", "a", "n", "t">>,
                 TyOf("Option", Ty("Scale")), None, NoDefault, FALSE),
             RestFld(<<"o", "t", "h", "e", "r", "_", "s", "t", "u", "f", "f">>) >>
      [] \* struct FontMaster
         R = "FontMaster" ->
          << Fld(<<"i", "d">>,
                 Ty("String"), None, NoDefault, TRUE),
             Fld(<<"n", "a", "m", "e">>,
                 Ty("String"), None, NoDefault, TRUE),
             Fld(<<"m", "e", "t", "r", "i", "c", "_", "v", "a", "l", "u", "e", "s">>,
                 TyOf("Vec", TyOf("Record", "MasterMetric")), None, NoDefault, TRUE),
             Fld(<<"n", "u", "m", "b", "e", "r", "_", "v", "a", "l", "u", "e", "s">>,
                 TyOf("Option", TyOf("Vec", Ty("f64"))), None, NoDefault, FALSE),
             Fld(<<"s", "t", "e", "m", "_", "v", "a", "l", "u", "e", "s">>,
                 TyOf("Option", TyOf("Vec", Ty("f64"))), None, NoDefault, FALSE),
             Fld(<<"a", "x", "e", "s", "_", "v", "a", "l", "u", "e", "s">>,
                 TyOf("Option", TyOf("Vec", Ty("f64"))), None, NoDefault, FALSE),
             Fld(<<"v", "i", "s", "i", "b", "l", "e">>,
                 Ty("bool"), None, DefaultExpr(TRUE), FALSE),
             Fld(<<"u", "s", "e", "r", "_", "d", "a", "t", "a">>,
                 Ty("Map"), None, DefaultTrait, FALSE),
             RestFld(<<"o", "t", "h", "e", "r", "_", "s", "t", "u", "f", "f">>) >>
      [] \* struct MasterMetric
         R = "MasterMetric" ->
          << Fld(<<"p", "o", "s">>,
                 Ty("f64"), None, DefaultTrait, FALSE),
             Fld(<<"o", "v", "e", "r">>,
                 Ty("f64"), None, DefaultTrait, FALSE) >>
      [] \* struct Glyph; the conversions of Layer, Direction and Case are not
         \* modelled, and no input of the model holds a value for them
         R = "Glyph" ->
          << Fld(<<"g", "l", "y", "p", "h", "n", "a", "m", "e">>,
                 Ty("Name"), None, NoDefault, TRUE),
             Fld(<<"u", "n", "i", "c", "o", "d", "e">>,
                 TyOf("Option", Ty("Codepoints")), None, NoDefault, FALSE),
             Fld(<<"l", "a", "y", "e", "r", "s">>,
                 TyOf("Vec", TyOf("Record", "Layer")), None, NoDefault, TRUE),
             Fld(<<"p", "r", "o", "d", "u", "c", "t", "i", "o", "n">>,
                 TyOf("Option", Ty("String")), None, NoDefault, FALSE),
             Fld(<<"s", "c", "r", "i", "p", "t">>,
                 TyOf("Option", Ty("String")), None, NoDefault, FALSE),
             Fld(<<"d", "i", "r", "e", "c", "t", "i", "o", "n">>,
                 TyOf("Option", Ty("Direction")), None, NoDefault, FALSE),
             Fld(<<"c", "a", "s", "e">>,
                 TyOf("Option", Ty("Case")), None, NoDefault, FALSE),
             Fld(<<"c", "a", "t", "e", "g", "o", "r", "y">>,
                 TyOf("Option", Ty("String")), None, NoDefault, FALSE),
             Fld(<<"s", "u", "b", "_", "c", "a", "t", "e", "g", "o", "r", "y">>,
                 TyOf("Option", Ty("String")), None, NoDefault, FALSE),
             Fld(<<"t", "a", "g", "s">>,
                 TyOf("Vec", Ty("String")), None, DefaultTrait, FALSE),
             Fld(<<"k", "e", "r", "n", "_", "r", "i", "g", "h", "t">>,
                 TyOf("Option", Ty("Name")), None, NoDefault, FALSE),
             Fld(<<"k", "e", "r", "n", "_", "l", "e", "f", "t">>,
                 TyOf("Option", Ty("Name")), None, NoDefault, FALSE),
             Fld(<<"k", "e", "r", "n", "_", "t", "o", "p">>,
                 TyOf("Option", Ty("Name")), None, NoDefault, FALSE),
             Fld(<<"k", "e", "r", "n", "_", "b", "o", "t", "t", "o", "m">>,
                 TyOf("Option", Ty("Name")), None, NoDefault, FALSE),
             Fld(<<"m", "e", "t", "r", "i", "c", "_", "t", "o", "p">>,
                 TyOf("Option", Ty("String")), None, NoDefault, FALSE),
             Fld(<<"m", "e", "t", "r", "i", "c", "_", "b", "o", "t", "t", "o", "m">>,
                 TyOf("Option", Ty("String")), None, NoDefault, FALSE),
             Fld(<<"m", "e", "t", "r", "i", "c", "_", "l", "e", "f", "t">>,
                 TyOf("Option", Ty("String")), None, NoDefault, FALSE),
             Fld(<<"m", "e", "t", "r", "i", "c", "_", "r", "i", "g", "h", "t">>,
                 TyOf("Option", Ty("String")), None, NoDefault, FALSE),
             Fld(<<"m", "e", "t", "r", "i", "c", "_", "w", "i", "d", "t", "h">>,
                 TyOf("Option", Ty("String")), None, NoDefault, FALSE),
             Fld(<<"u", "s", "e", "r", "_", "d", "a", "t", "a">>,
                 Ty("Map"), None, DefaultTrait, FALSE),
             Fld(<<"e", "x", "p", "o", "r", "t">>,
                 Ty("bool"), None, DefaultExpr(TRUE), FALSE),
             Fld(<<"c", "o", "l", "o", "r">>,
                 TyOf("Option", Ty("Color")), None, NoDefault, FALSE),
             Fld(<<"n", "o", "t", "e">>,
                 TyOf("Option", Ty("String")), None, NoDefault, FALSE),
             Fld(<<"l", "o", "c", "k", "e", "d">>,
                 Ty("bool"), None, DefaultTrait, FALSE),
             RestFld(<<"o", "t", "h", "e", "r", "_", "s", "t", "u", "f", "f">>) >>
      [] \* struct Instance
         R = "Instance" ->
          << Fld(<<"n", "a", "m", "e">>,
                 Ty("String"), None, NoDefault, TRUE),
             Fld(<<"a", "x", "e", "s", "_", "v", "a", "l", "u", "e", "s">>,
                 TyOf("Option", TyOf("Vec", Ty("f64"))), None, NoDefault, FALSE),
             Fld(<<"e", "x", "p", "o", "r", "t", "s">>,
                 Ty("bool"), None, DefaultExpr(TRUE), FALSE),
             Fld(<<"i", "s", "_", "b", "o", "l", "d">>,
                 Ty("bool"), None, DefaultTrait, FALSE),
             Fld(<<"i", "s", "_", "i", "t", "a", "l", "i", "c">>,
                 Ty("bool"), None, DefaultTrait, FALSE),
             Fld(<<"l", "i", "n", "k", "_", "s", "t", "y", "l", "e">>,
                 TyOf("Option", Ty("String")), None, NoDefault, FALSE),
             Fld(<<"r", "#", "t", "y", "p", "e">>,
                 TyOf("Option", Ty("InstanceType")), None, NoDefault, FALSE),
             Fld(<<"u", "s", "e", "r", "_", "d", "a", "t", "a">>,
                 Ty("Map"), None, DefaultTrait, FALSE),
             Fld(<<"v", "i", "s", "i", "b", "l", "e">>,
                 Ty("bool"), None, DefaultExpr(TRUE), FALSE),
             Fld(<<"w", "e", "i", "g", "h", "t", "_", "c", "l", "a", "s", "s">>,
                 Ty("i64"), None, DefaultExpr(400), FALSE),
             Fld(<<"w", "i", "d", "t", "h", "_", "c", "l", "a", "s", "s">>,
                 Ty("i64"), None, DefaultExpr(5), FALSE),
             RestFld(<<"o", "t", "h", "e", "r", "_", "s", "t", "u", "f", "f">>) >>

\* Ident::unraw
unraw(s) ==
    IF Len(s) >= 2 /\ s[1] = "r" /\ s[2] = "#" THEN SubSeq(s, 3, Len(s)) ELSE s

\* heck's to_lower_camel_case on a snake_case identifier: the words between
\* underscores, the first in lower case, the others capitalised.
RECURSIVE camel_from(_, _, _, _)
camel_from(s, i, first, start) ==
    IF i > Len(s) THEN <<>>
    ELSE IF s[i] = "_" THEN camel_from(s, i + 1, first, TRUE)
    ELSE (IF start /\ ~first
          THEN <<IF s[i] \in Lower THEN Chr(Code(s[i]) - 32) ELSE s[i]>>
          ELSE <<ToLower(s[i])>>)
         \o camel_from(s, i + 1, FALSE, FALSE)

to_lower_camel_case(s) == camel_from(s, 1, TRUE, TRUE)

\* The wire key of a field: its rename, or the camel-cased identifier.
plist_name(fd) ==
    IF fd.serialised_name.some THEN fd.serialised_name.v
    ELSE to_lower_camel_case(unraw(fd.ident))

field_is_option(fd) == fd.ty.k = "Option"

\* Whether the struct has a #[plist(rest)] field, and that field.
consumes_rest(R) == \E i \in 1..Len(Fields(R)) : Fields(R)[i].rest
rest_field(R) == Fields(R)[CHOOSE i \in 1..Len(Fields(R)) : Fields(R)[i].rest]

(***************************************************************************)
(* Decoding: TryFrom<Plist> for every type, and the derived FromPlist.     *)
(***************************************************************************)

\* The Default of a type.  Of the structs, only Settings derives Default.
RECURSIVE type_default(_)
type_default(ty) ==
    CASE ty.k = "String" -> <<>>
      [] ty.k = "bool" -> FALSE
      [] ty.k \in {"i64", "u16"} -> 0
      [] ty.k = "f64" -> F64(FALSE, 0, 0)
      [] ty.k = "Map" -> EmptyMap
      [] ty.k = "Vec" -> <<>>
      [] ty.k = "Option" -> None
      [] ty.k = "Point" -> Pair(F64(FALSE, 0, 0), F64(FALSE, 0, 0))
      [] ty.k = "Record" ->
            LET fs == Fields(ty.of)
            IN  [id \in {fs[i].ident : i \in 1..Len(fs)} |->
                    type_default((CHOOSE i \in 1..Len(fs) : fs[i].ident = id).ty)]

\* parse_one that stops at the conversion to u32.
parse_one_u32(n) ==
    IF n < 0 THEN CvErr("Codepoints", "InvalidCodepoint", n) ELSE CvOk(n)

\* parse_one in TryFrom<Plist> for norad::Codepoints: n.try_into() to u32,
\* then char::try_from, which refuses the surrogates D800..DFFF and what is
\* above 10FFFF.
parse_one(n) ==
    IF n < 0 THEN CvErr("Codepoints", "InvalidCodepoint", n)
    ELSE IF n > 1114111 \/ (n >= 55296 /\ n <= 57343)
    THEN CvErr("Codepoints", "InvalidCodepoint", n)
    ELSE CvOk(n)

\* The items of the array collected into Codepoints, an ordered set, up to
\* the first failure.
RECURSIVE codepoints_collect(_, _, _)
codepoints_collect(array, i, acc) ==
    IF i > Len(array) THEN CvOk(acc)
    ELSE IF array[i].t # "Integer" THEN CvErr("Codepoints", "WrongVariant", 0)
    ELSE IF parse_one(array[i].v).st # "Ok" THEN parse_one(array[i].v)
    ELSE codepoints_collect(array, i + 1,
            IF \E j \in 1..Len(acc) : acc[j] = array[i].v THEN acc
            ELSE Append(acc, array[i].v))

\* TryFrom<Plist> for norad::Codepoints
codepoints_try_from(plist) ==
    CASE plist.t = "Integer" ->
            IF parse_one(plist.v).st = "Ok" THEN CvOk(<<plist.v>>)
            ELSE parse_one(plist.v)
      [] plist.t = "Array" -> codepoints_collect(plist.v, 1, <<>>)
      [] OTHER -> CvErr("Codepoints", "WrongVariant", 0)

\* ToPlist for norad::Codepoints, on a non-empty set
codepoints_to_plist(self) ==
    IF Len(self) = 1 THEN PInteger(self[1])
    ELSE PArray([i \in 1..Len(self) |-> PInteger(self[i])])

\* collect::<Result<_, _>>() over the entries of a HashMap, whose iteration
\* order is not fixed: results[k] is the set of results the entry k can give.
\* When an entry fails, the failure of any failing entry can come first.
kerning_collect(results) ==
    IF \A k \in DOMAIN results : \E r \in results[k] : r.st = "Ok"
    THEN { CvOk([k \in DOMAIN results |-> (CHOOSE r \in results[k] : TRUE).val]) }
    ELSE UNION { {r \in results[k] : r.st # "Ok"} : k \in DOMAIN results }

\* norad::Name::new accepts the name.
name_is_valid(s) == s # <<>> /\ \A i \in 1..Len(s) : s[i] \in AsciiSet

\* The innermost closure of the kerning conversion: the kerns of a left glyph.
kerning_kerns(left, kerns) ==
    kerning_collect([right \in DOMAIN kerns |->
        IF ~name_is_valid(right)
        THEN { CvPanic("glyph name valid in Glyphs but not norad") }
        ELSE IF ~as_f64(kerns[right]).some
        THEN { CvErr("Kerning", "NotFloatValue", <<left, right>>) }
        ELSE { CvOk(as_f64(kerns[right]).v) }])

\* The middle closure of the kerning conversion: the kerning of a master.
kerning_master(master_kerning) ==
    kerning_collect([left \in DOMAIN master_kerning |->
        IF master_kerning[left].t # "Dictionary"
        THEN { CvErr("Kerning", "WrongVariant", <<>>) }
        ELSE IF ~name_is_valid(left)
        THEN { CvPanic("glyph name valid in Glyphs but not norad") }
        ELSE kerning_kerns(left, master_kerning[left].v)])

\* TryFrom<Plist> for HashMap<String, norad::Kerning>
kerning_try_from(plist) ==
    IF plist.t # "Dictionary" THEN { CvErr("Kerning", "WrongVariant", <<>>) }
    ELSE kerning_collect([master_id \in DOMAIN plist.v |->
            IF plist.v[master_id].t # "Dictionary"
            THEN { CvErr("Kerning", "WrongVariant", <<>>) }
            ELSE kerning_master(plist.v[master_id].v)])

\* ToPlist for HashMap<String, norad::Kerning>
kerning_to_plist(self) ==
    PDict([master_id \in DOMAIN self |->
        PDict([first \in DOMAIN self[master_id] |->
            PDict([second \in DOMAIN self[master_id][first] |->
                PFloat(self[master_id][first][second])])])])

\* ArrayConversionError turned into GlyphsFromPlistError::Array
array_conversion_error(r) == CvErr("Array", r.e, r.a)

RECURSIVE try_from(_, _)
RECURSIVE vec_elements(_, _, _, _)
RECURSIVE node_try_from(_)
RECURSIVE record_try_from(_, _)
RECURSIVE decode_fields(_, _, _, _, _)

\* The elements of an array converted in order, up to the first failure.
vec_elements(T, a, i, acc) ==
    IF i > Len(a) THEN CvOk(acc)
    ELSE LET r == try_from(T, a[i])
         IN  CASE r.st = "Ok" -> vec_elements(T, a, i + 1, Append(acc, r.val))
               [] r.st = "Err" -> array_conversion_error(r)
               [] r.st = "Panic" -> r

\* From<Plist> for Vec<T>
vec_from(T, p) ==
    IF into_vec(p).st = "Panic" THEN into_vec(p)
    ELSE vec_elements(T, into_vec(p).val, 1, <<>>)

\* TryFrom<Plist> for Node
node_try_from(p) ==
    IF p.t # "Array" THEN CvErr("Node", "WrongVariant", 0)
    ELSE LET tuple == p.v
         IN  IF Len(tuple) < 1 THEN CvErr("Node", "MissingX", 0)
             ELSE IF ~as_f64(tuple[1]).some THEN CvErr("Node", "NotFloatX", 0)
             ELSE IF Len(tuple) < 2 THEN CvErr("Node", "MissingY", 0)
             ELSE IF ~as_f64(tuple[2]).some THEN CvErr("Node", "NotFloatY", 0)
             ELSE IF Len(tuple) < 3 THEN CvErr("Node", "MissingType", 0)
             ELSE IF node_type_try_from(tuple[3]).st # "Ok"
             THEN node_type_try_from(tuple[3])
             ELSE LET attr == IF Len(tuple) < 4 THEN CvOk(None)
                              ELSE record_try_from("NodeAttrs", tuple[4])
                      pt == Pair(as_f64(tuple[1]).v, as_f64(tuple[2]).v)
                      node_type == node_type_try_from(tuple[3]).val
                  IN  CASE attr.st = "Panic" -> attr
                        [] attr.st = "Err" -> CvErr("Node", "InvalidAttr", 0)
                        [] Len(tuple) < 4 ->
                              CvOk([pt |-> pt, node_type |-> node_type, attr |-> None])
                        [] OTHER ->
                              CvOk([pt |-> pt, node_type |-> node_type,
                                    attr |-> Some(attr.val)])

try_from(ty, p) ==
    CASE ty.k = "String" -> into_string(p)
      [] ty.k = "Map" -> into_hashmap(p)
      [] ty.k = "bool" -> bool_try_from(p)
      [] ty.k = "i64" -> i64_try_from(p)
      [] ty.k = "u16" -> u16_try_from(p)
      [] ty.k = "f64" -> f64_try_from(p)
      [] ty.k = "Point" -> point_try_from(p)
      [] ty.k = "Scale" -> scale_try_from(p)
      [] ty.k = "Color" -> color_try_from(p)
      [] ty.k = "InstanceType" -> instance_type_try_from(p)
      [] ty.k = "MetricType" -> metric_type_try_from(p)
      [] ty.k = "Name" -> name_try_from(p)
      [] ty.k = "Codepoints" -> codepoints_try_from(p)
      [] ty.k = "Node" -> node_try_from(p)
      [] ty.k = "Vec" -> vec_from(ty.of, p)
      [] ty.k = "Record" -> record_try_from(ty.of, p)

\* T::try_from(p), as the set of results that the iteration order of a
\* HashMap allows.
try_from_results(ty, p) ==
    IF ty.k = "Kerning" THEN kerning_try_from(p) ELSE { try_from(ty, p) }

\* absent_value that ignores the default expression of the attribute.
absent_value_of_type(fd) ==
    CASE fd.default.c \in {"Expr", "DefaultTrait"} -> type_default(fd.ty)
      [] OTHER -> None

\* What a field without a MissingField error gets when its key is absent:
\* the default expression, Default::default(), or None for an Option.
absent_value(fd) ==
    CASE fd.default.c = "Expr" -> fd.default.v
      [] fd.default.c = "DefaultTrait" -> type_default(fd.ty)
      [] OTHER -> None

\* The field initialisers that add_deser generates, run in declaration
\* order on the hashmap: res is the record built so far or the failure that
\* returned early, ran lists the fields whose converter was called.
decode_fields(fs, i, hashmap, rec, ran) ==
    IF i > Len(fs) THEN [res |-> CvOk(rec), hashmap |-> hashmap, ran |-> ran]
    ELSE IF fs[i].rest THEN decode_fields(fs, i + 1, hashmap, rec, ran)
    ELSE
    LET fd == fs[i]
        key == plist_name(fd)
        present == key \in DOMAIN hashmap
        left == Remove(hashmap, key)
        into == IF fd.default.c = "None" /\ field_is_option(fd) THEN fd.ty.of ELSE fd.ty
        conv == try_from(into, hashmap[key])
        value ==
            IF present
            THEN IF fd.default.c = "None" /\ field_is_option(fd)
                 THEN Some(conv.val) ELSE conv.val
            ELSE absent_value(fd)
    IN  IF present /\ conv.st # "Ok"
        THEN [res |-> conv, hashmap |-> left, ran |-> Append(ran, fd.ident)]
        ELSE IF ~present /\ fd.default.c = "None" /\ ~field_is_option(fd)
        THEN [res |-> CvErr("MissingField", "MissingField", fd.ident),
              hashmap |-> left, ran |-> ran]
        ELSE decode_fields(fs, i + 1, left,
                           [id \in DOMAIN rec \cup {fd.ident} |->
                                IF id = fd.ident THEN value ELSE rec[id]],
                           IF present THEN Append(ran, fd.ident) ELSE ran)

\* A try_from that looks for keys that no field declares before it decodes
\* the fields.
record_try_from_leftover_first(R, plist) ==
    IF into_hashmap(plist).st = "Panic" THEN into_hashmap(plist)
    ELSE IF ~consumes_rest(R)
            /\ \E k \in DOMAIN into_hashmap(plist).val :
                  \A i \in 1..Len(Fields(R)) : plist_name(Fields(R)[i]) # k
    THEN CvPanic("unrecognised fields")
    ELSE decode_fields(Fields(R), 1, into_hashmap(plist).val, EmptyMap, <<>>).res

\* The TryFrom<Plist> that derive(FromPlist) generates for struct R.
record_try_from(R, plist) ==
    IF into_hashmap(plist).st = "Panic" THEN into_hashmap(plist)
    ELSE LET d == decode_fields(Fields(R), 1, into_hashmap(plist).val, EmptyMap, <<>>)
         IN  IF d.res.st # "Ok" THEN d.res
             ELSE IF consumes_rest(R)
             THEN CvOk([id \in DOMAIN d.res.val \cup {rest_field(R).ident} |->
                            IF id = rest_field(R).ident THEN d.hashmap
                            ELSE d.res.val[id]])
             ELSE IF DOMAIN d.hashmap # {}
             THEN CvPanic("unrecognised fields")
             ELSE d.res

(***************************************************************************)
(* Encoding: ToPlist for every type, and the derived ToPlist.              *)
(***************************************************************************)

\* The derived PartialEq of a typed value.
RECURSIVE TypedEq(_, _, _)
TypedEq(ty, a, b) ==
    CASE ty.k = "f64" -> F64Eq(a, b)
      [] ty.k \in {"Point", "Scale"} -> F64Eq(a.x, b.x) /\ F64Eq(a.y, b.y)
      [] ty.k = "Color" -> a.c = b.c /\ a.v = b.v
      [] ty.k = "Map" ->
            /\ DOMAIN a = DOMAIN b
            /\ \A k \in DOMAIN a : PlistEq(a[k], b[k])
      [] ty.k = "Vec" ->
            /\ Len(a) = Len(b)
            /\ \A i \in 1..Len(a) : TypedEq(ty.of, a[i], b[i])
      [] ty.k = "Option" ->
            /\ a.some = b.some
            /\ a.some => TypedEq(ty.of, a.v, b.v)
      [] ty.k = "Node" ->
            /\ F64Eq(a.pt.x, b.pt.x) /\ F64Eq(a.pt.y, b.pt.y)
            /\ a.node_type = b.node_type
            /\ TypedEq(TyOf("Option", TyOf("Record", "NodeAttrs")), a.attr, b.attr)
      [] ty.k = "Record" ->
            \A i \in 1..Len(Fields(ty.of)) :
                TypedEq(Fields(ty.of)[i].ty,
                        a[Fields(ty.of)[i].ident], b[Fields(ty.of)[i].ident])
      [] OTHER -> a = b

RECURSIVE to_plist(_, _)
RECURSIVE node_to_plist(_)
RECURSIVE record_to_plist(_, _)
RECURSIVE encode_fields(_, _, _, _)

\* ToPlist for Node
node_to_plist(n) ==
    LET tuple == <<PFloat(n.pt.x), PFloat(n.pt.y), PString(n.node_type)>>
    IN  IF n.attr.some
        THEN PArray(Append(tuple, record_to_plist("NodeAttrs", n.attr.v)))
        ELSE PArray(tuple)

to_plist(ty, x) ==
    CASE ty.k = "String" -> PString(x)
      [] ty.k = "Map" -> PDict(x)
      [] ty.k = "bool" -> bool_to_plist(x)
      [] ty.k \in {"i64", "u16"} -> PInteger(x)
      [] ty.k = "f64" -> f64_to_plist(x)
      [] ty.k = "Point" -> point_to_plist(x)
      [] ty.k = "Scale" -> scale_to_plist(x)
      [] ty.k = "Color" -> color_to_plist(x)
      [] ty.k = "InstanceType" -> instance_type_to_plist(x)
      [] ty.k \in {"MetricType", "Name"} -> PString(x)
      [] ty.k = "Codepoints" -> codepoints_to_plist(x)
      [] ty.k = "Kerning" -> kerning_to_plist(x)
      [] ty.k = "Node" -> node_to_plist(x)
      [] ty.k = "Vec" -> PArray([i \in 1..Len(x) |-> to_plist(ty.of, x[i])])
      [] ty.k = "Record" -> record_to_plist(ty.of, x)

\* ToPlistOpt::to_plist: an Option<T> gives its content, if any.
to_plist_opt(ty, x) ==
    IF ty.k = "Option"
    THEN IF x.some THEN Some(to_plist(ty.of, x.v)) ELSE None
    ELSE Some(to_plist(ty, x))

\* default_value that ignores the default expression of the attribute.
default_value_of_type(fd) == type_default(fd.ty)

\* The default that add_ser compares a field with.
default_value(fd) ==
    IF fd.default.c = "Expr" THEN fd.default.v ELSE type_default(fd.ty)

\* emitted without the always_serialise case.
emitted_unless_default(fd, x) ==
    IF ~TypedEq(fd.ty, x, default_value(fd)) THEN to_plist_opt(fd.ty, x) ELSE None

\* What add_ser inserts for a field of value x, if anything: always for an
\* always_serialise field, else only a value that differs from the default.
emitted(fd, x) ==
    IF fd.always_serialise \/ ~TypedEq(fd.ty, x, default_value(fd))
    THEN to_plist_opt(fd.ty, x)
    ELSE None

\* The insertions that add_ser generates, in declaration order.
encode_fields(fs, i, hashmap, self) ==
    IF i > Len(fs) THEN hashmap
    ELSE IF fs[i].rest THEN encode_fields(fs, i + 1, hashmap, self)
    ELSE
    LET fd == fs[i]
        x == self[fd.ident]
        plist == emitted(fd, x)
    IN  encode_fields(fs, i + 1,
                      IF plist.some THEN Insert(hashmap, plist_name(fd), plist.v)
                      ELSE hashmap,
                      self)

\* ser_rest that starts from an empty hashmap whatever the struct.
ser_rest_empty(R, self) == EmptyMap

\* add_ser_rest: the hashmap the insertions start from.
ser_rest(R, self) ==
    IF consumes_rest(R) THEN self[rest_field(R).ident] ELSE EmptyMap

\* The ToPlist that derive(ToPlist) generates for struct R.
record_to_plist(R, self) ==
    PDict(encode_fields(Fields(R), 1, ser_rest(R, self), self))

\* Whether x.to_plist() stops the program: the assertion in ToPlist for
\* Codepoints fails on an empty set, in x itself or in a value that the
\* encoding of x writes.
RECURSIVE to_plist_panics(_, _)
to_plist_panics(ty, x) ==
    CASE ty.k = "Codepoints" -> x = <<>>
      [] ty.k = "Option" -> x.some /\ to_plist_panics(ty.of, x.v)
      [] ty.k = "Vec" -> \E i \in 1..Len(x) : to_plist_panics(ty.of, x[i])
      [] ty.k = "Node" ->
            x.attr.some /\ to_plist_panics(TyOf("Record", "NodeAttrs"), x.attr.v)
      [] ty.k = "Record" ->
            \E i \in 1..Len(Fields(ty.of)) :
                LET fd == Fields(ty.of)[i]
                IN  /\ ~fd.rest
                    /\ fd.always_serialise
                          \/ ~TypedEq(fd.ty, x[fd.ident], default_value(fd))
                    /\ to_plist_panics(fd.ty, x[fd.ident])
      [] OTHER -> FALSE

(***************************************************************************)
(* The text engine as a state machine: a caller holds a text, parses it    *)
(* or wraps it as a Plist string, prints the value and parses the output.  *)
(***************************************************************************)

VARIABLES
    text,      \* the caller's input: a document, or the content of a String
    nested,    \* whether the input was wrapped in an array or a dictionary
    origin,    \* "none", "parse" (Plist::parse) or "string" (From<String>)
    tree,      \* the result of the call named by origin
    out,       \* the text printed from tree, once printed
    back       \* the result of parsing out

textVars == <<text, nested, origin, tree, out, back>>

VARIABLES
    target,    \* the type converted into, an index of Targets
    input,     \* the Plist the caller converts
    made,      \* "none", "try_from" or "new": how dec was made
    dec,       \* the result of the conversion, or the constructed value
    enc        \* the Plist converted back from dec, once converted

codecVars == <<target, input, made, dec, enc>>

VARIABLES
    transform1,        \* the transform of a norad component, or <<>>
    glyphs_component,  \* the Component made from it, once made
    transform2,        \* the transform of the norad component made from that
    path1,             \* a Path, or <<>>
    contour,           \* the result of converting path1 into a norad contour
    path2              \* the Path made from contour

interopVars == <<transform1, glyphs_component, transform2, path1, contour, path2>>

MaxLen == 3

\* Inputs beyond the alphabet: numeric look-alikes, quoting and escapes,
\* documents with keys, trailing text, repeated keys.
Examples ==
    { <<"1", "2", "3">>,
      <<"-", "1">>,
      <<"1", "e", "5">>,
      <<"i", "n", "f">>,
      <<"i", "n", "f", "i", "n", "i", "t", "y">>,
      <<"0", "1", "2", "3">>,
      <<"1", "A", "B">>,
      <<"0", ".", "5">>,
      <<"-", "7">>,
      <<"1", ".", "0">>,
      <<"n", "a", "n">>,
      <<"-", "0", ".", "0">>,
      <<"a", " ", "b">>,
      <<"a", "\"", "b">>,
      <<"a", "\\", "b">>,
      <<"a", "b", "c">>,
      <<"$", "x">>,
      <<"1", ".", "5", "e", "-", "3">>,
      <<"\"", "1", "2", "3", "\"">>,
      <<"\"", "a", "\\", "\"", "b", "\"">>,
      <<"\"", "\\", "1", "0", "1", "\"">>,
      <<"\"", "\\", "n", "\"">>,
      <<"\"", "i", "n", "f", "\"">>,
      <<"{", "a", "=", "1", ";", "a", "=", "2", ";", "}">>,
      <<"{", " ", "n", "o", "d", "e", "s", " ", "=", " ", "(", ")", ";", " ", "}">>,
      <<"1", " ", ")">>,
      <<"{", "1", ".", "0", " ", "=", " ", "x", ";", "}">>,
      <<"{", "d", "=", "1", ";", "c", "=", "(", ")", ";", "}">>,
      <<"(", "1", ",", " ", "2", ".", "5", "0", ",", " ", "x", ")">> }

\* Documents with one defect each, by the place where the defect is: text is
\* the document, ch the character at the defect when it is a stray
\* character, nests whether the defect comes before the end of the text.
Defects ==
    LET key == { <<"a">>, <<"\"", "k", " ", "\"">> }
        val == { <<"1">>, <<"(", ")">>, <<"{", "}">>, <<"\"", "x", "\"">> }
        ws == { <<>>, <<" ">> }
        D(t, c, n) == [text |-> t, ch |-> c, nests |-> n]
    IN  [ NoEquals |->
            { D(<<"{">> \o w \o k \o v \o t, "", t # <<>>) :
                w \in ws, k \in key, v \in ws,
                t \in { <<>>, <<";">>, <<" ", "1", ";", "}">>, <<"}">> } },
          NoSemicolon |->
            { D(<<"{">> \o k \o <<"=">> \o v \o w \o t, "", t # <<>>) :
                k \in key, v \in val, w \in ws,
                t \in { <<>>, <<"}">>, <<",">>, <<" ", "b", "=", "1", ";", "}">> } },
          NoComma |->
            { D(<<"(">> \o v \o w \o t, "", t # <<>>) :
                v \in val, w \in ws,
                t \in { <<>>, <<";">>, <<" ", "2", ")">>, <<"}">>, <<"=">> } },
          NoKey |->
            { D(p \o x, "", x # <<>>) :
                p \in { <<"{">>, <<"{", " ">>, <<"{", "a", "=", "1", ";">> },
                x \in { <<>>, <<"{">>, <<"(">>, <<"{", "}">>, <<"(", "}">> } },
          OpenQuote |->
            { D(p \o <<"\"">> \o b, "", FALSE) :
                p \in { <<>>, <<"(">>, <<"{", "a", "=">> },
                b \in { <<>>, <<"a", "b", "c">>, <<"a", "\\", "\"">>, <<"\\", "n">>,
                        <<"\\", "1", "0", "1">>, <<"a", "\\", "\\">>, <<"\\">> } },
          BadEscape |->
            { D(p \o <<"\"">> \o a \o <<"\\">> \o b \o q, "", TRUE) :
                p \in { <<>>, <<"(">> }, a \in { <<>>, <<"a">> },
                b \in { <<"t">>, <<"x">>, <<" ">>, <<"4", "0", "0">>, <<"1", "8", "0">>,
                        <<"0", "0", "9">>, <<"1", "0">>, <<"1">> },
                q \in { <<>>, <<"\"">> } },
          Stray |->
            UNION { { D(p \o <<c>> \o r, c, ~(p \in ws /\ c = ")")) :
                        c \in { "}", ")", "=", ";", ",", "\\", "'", "<", "#" }
                                \ { IF p = <<"{">> THEN "}"
                                    ELSE IF p = <<"(">> THEN ")" ELSE "" },
                        r \in { <<>>, <<"1">> } } :
                    p \in { <<>>, <<" ">>, <<"(">>, <<"{">>, <<"{", "a", "=">>,
                            <<"(", "1", ",">> } } ]

Inputs ==
    UNION {[1..k -> {"0", "1", "A", ".", "-", "\""}] : k \in 0..MaxLen}
        \cup Examples
        \cup UNION { {m.text : m \in Defects[kind]} : kind \in DOMAIN Defects }

NotRun == [ok |-> FALSE, err |-> "NotRun", ch |-> ""]

\* The input wrapped as the elements of an array, or as the values of a
\* dictionary whose keys are written out of order.
Wrapped(s) ==
    << <<"(">> \o s \o <<",", " ">> \o s \o <<")">>,
       <<"{", "b", " ", "=", " ">> \o s \o <<";", " ", "a", " ", "=", " ", "(">>
            \o s \o <<")", ";", "}">> >>

\* No conversion to or from norad is under way.
InitInteropIdle ==
    /\ transform1 = <<>>
    /\ glyphs_component = None
    /\ transform2 = None
    /\ path1 = <<>>
    /\ contour = None
    /\ path2 = None

InitText ==
    /\ text \in Inputs
    /\ nested = FALSE
    /\ origin = "none"
    /\ tree = NotRun
    /\ out = None
    /\ back = NotRun
    \* no conversion is under way
    /\ target = 1
    /\ input = PDict(EmptyMap)
    /\ made = "none"
    /\ dec = [st |-> "None"]
    /\ enc = None
    /\ InitInteropIdle

\* The caller nests the document before parsing it.
Nest ==
    /\ origin = "none"
    /\ ~nested
    /\ \E i \in 1..2 : text' = Wrapped(text)[i]
    /\ nested' = TRUE
    /\ UNCHANGED <<origin, tree, out, back, codecVars, interopVars>>

\* Plist::parse(&text)
Parse ==
    /\ origin = "none"
    /\ tree' = parse(text)
    /\ origin' = "parse"
    /\ UNCHANGED <<text, nested, out, back, codecVars, interopVars>>

\* Plist::from(text): impl From<String> for Plist
FromString ==
    /\ origin = "none"
    /\ ~nested
    /\ tree' = Ok(PString(text))
    /\ origin' = "string"
    /\ UNCHANGED <<text, nested, out, back, codecVars, interopVars>>

\* plist.to_string(): Display for Plist
Display ==
    /\ tree.ok
    /\ ~out.some
    /\ out' = Some(push_to_string(tree.val))
    /\ UNCHANGED <<text, nested, origin, tree, back, codecVars, interopVars>>

\* Plist::parse(&out): the printed text is read again
Reparse ==
    /\ out.some
    /\ ~back.ok
    /\ back.err = "NotRun"
    /\ back' = parse(out.v)
    /\ UNCHANGED <<text, nested, origin, tree, out, codecVars, interopVars>>

NextText == Nest \/ Parse \/ FromString \/ Display \/ Reparse

vars == <<textVars, codecVars, interopVars>>

\* The text engine alone.
SpecText == InitText /\ [][NextText]_vars

\* The schema mapping alone: no text is held.
InitTextIdle ==
    /\ text = <<>>
    /\ nested = FALSE
    /\ origin = "none"
    /\ tree = NotRun
    /\ out = None
    /\ back = NotRun

(***************************************************************************)
(* The schema mapping as a state machine: a caller holds a Plist, built    *)
(* key by key or taken from the fixtures, converts it into a target type   *)
(* and converts the typed value back.                                      *)
(***************************************************************************)

\* The target types of a conversion: the structs and the other types that
\* implement TryFrom<Plist>.
Targets ==
    << TyOf("Record", "FooBar"), TyOf("Record", "Path"), TyOf("Record", "NodeAttrs"),
       TyOf("Record", "Settings"), TyOf("Record", "Axis"), TyOf("Record", "FontStems"),
       TyOf("Record", "MasterMetric"), TyOf("Record", "PathAttrs"),
       TyOf("Record", "PathShadow"), TyOf("Record", "PathGradient"),
       TyOf("Record", "Instance"), TyOf("Record", "Component"),
       TyOf("Record", "Font"), TyOf("Record", "FontMaster"),
       TyOf("Record", "Metric"), TyOf("Record", "FontNumbers"),
       Ty("String"), Ty("bool"), Ty("i64"), Ty("u16"), Ty("f64"), Ty("Map"),
       Ty("Point"), Ty("Scale"), Ty("Color"), Ty("InstanceType"), Ty("Node"),
       Ty("MetricType"), Ty("Name"),
       TyOf("Vec", Ty("i64")), TyOf("Vec", Ty("String")), Ty("Codepoints"),
       Ty("Kerning"), TyOf("Record", "Glyph") >>

\* The structs whose dictionaries are also built key by key.
BuiltFor == 1..7

MaxKeys == 2

\* Two keys that no struct declares.
Undeclared == { <<"b", "a", "r">>, <<"z", "z">> }

\* The wire keys of a struct.
WireKeys(R) == { plist_name(Fields(R)[i]) : i \in {j \in 1..Len(Fields(R)) : ~Fields(R)[j].rest} }

\* The values a built dictionary maps its keys to.
Values ==
    << PInteger(0), PInteger(1), PString(<<"a", "b", "c">>), PString(<<>>),
       PFloat(F64(FALSE, 5, 0 - 1)), PArray(<<>>), PDict(EmptyMap) >>

\* Fixtures: the dictionaries of the tests and values of every variant.
GivenInputs ==
    << PDict(Insert(Insert(EmptyMap, <<"f", "o", "o">>, PString(<<"a", "b", "c">>)), <<"b", "a", "r">>, PString(<<"d", "e", "f">>))),
       PDict(Insert(EmptyMap, <<"n", "o", "d", "e", "s">>, PArray(<<>>))),
       PDict(Insert(Insert(Insert(EmptyMap, <<"n", "a", "m", "e">>, PString(<<"a", "b", "c">>)), <<"b", "a", "r">>, PString(<<"d", "e", "f">>)), <<"z", "z">>, PArray(<<PInteger(1), PString(<<"x">>)>>))),
       PDict(Insert(Insert(Insert(EmptyMap, <<"d", "i", "s", "a", "b", "l", "e", "s", "N", "i", "c", "e", "N", "a", "m", "e", "s">>, PInteger(1)), <<"b", "a", "r">>, PString(<<"d", "e", "f">>)), <<"z", "z">>, PFloat(F64(FALSE, 5, 0 - 1)))),
       PDict(Insert(Insert(Insert(EmptyMap, <<"a", "t", "t", "r">>, PDict(Insert(Insert(EmptyMap, <<"f", "i", "l", "l">>, PInteger(1)), <<"s", "t", "r", "o", "k", "e", "W", "i", "d", "t", "h">>, PFloat(F64(FALSE, 25, 0 - 1))))), <<"c", "l", "o", "s", "e", "d">>, PInteger(0)), <<"n", "o", "d", "e", "s">>, PArray(<<PArray(<<PInteger(0), PInteger(0), PString(<<"l">>)>>), PArray(<<PInteger(1), PFloat(F64(FALSE, 5, 0 - 1)), PString(<<"o">>), PDict(Insert(Insert(EmptyMap, <<"n", "a", "m", "e">>, PString(<<"a", "b", "c">>)), <<"z", "z">>, PInteger(1)))>>)>>))),
       PDict(Insert(Insert(EmptyMap, <<"c", "l", "o", "s", "e", "d">>, PInteger(1)), <<"n", "o", "d", "e", "s">>, PArray(<<PArray(<<PInteger(0), PInteger(0), PString(<<"l">>)>>)>>))),
       PDict(Insert(Insert(EmptyMap, <<"c", "l", "o", "s", "e", "d">>, PInteger(2)), <<"n", "o", "d", "e", "s">>, PArray(<<>>))),
       PDict(Insert(Insert(Insert(Insert(Insert(Insert(Insert(EmptyMap, <<"n", "a", "m", "e">>, PString(<<"a", "b", "c">>)), <<"e", "x", "p", "o", "r", "t", "s">>, PInteger(0)), <<"t", "y", "p", "e">>, PString(<<"v", "a", "r", "i", "a", "b", "l", "e">>)), <<"w", "e", "i", "g", "h", "t", "C", "l", "a", "s", "s">>, PInteger(400)), <<"w", "i", "d", "t", "h", "C", "l", "a", "s", "s">>, PInteger(7)), <<"u", "s", "e", "r", "D", "a", "t", "a">>, PDict(Insert(EmptyMap, <<"k">>, PInteger(1)))), <<"z", "z">>, PInteger(1))),
       PDict(Insert(Insert(Insert(Insert(EmptyMap, <<"n", "a", "m", "e">>, PString(<<"a", "b", "c">>)), <<"e", "x", "p", "o", "r", "t", "s">>, PInteger(1)), <<"w", "e", "i", "g", "h", "t", "C", "l", "a", "s", "s">>, PInteger(700)), <<"w", "i", "d", "t", "h", "C", "l", "a", "s", "s">>, PInteger(5))),
       PDict(Insert(Insert(Insert(Insert(Insert(EmptyMap, <<"r", "e", "f">>, PString(<<"a", "b", "c">>)), <<"a", "n", "g", "l", "e">>, PFloat(F64(FALSE, 5, 0 - 1))), <<"p", "o", "s">>, PArray(<<PInteger(1), PInteger(2)>>)), <<"s", "c", "a", "l", "e">>, PArray(<<PFloat(F64(FALSE, 5, 0 - 1)), PInteger(1)>>)), <<"z", "z">>, PString(<<"x">>))),
       PDict(Insert(Insert(Insert(Insert(EmptyMap, <<"f", "i", "l", "l">>, PInteger(1)), <<"f", "i", "l", "l", "C", "o", "l", "o", "r">>, PArray(<<PInteger(0), PInteger(0), PInteger(0), PInteger(255)>>)), <<"s", "h", "a", "d", "o", "w">>, PDict(Insert(Insert(Insert(Insert(EmptyMap, <<"b", "l", "u", "r">>, PString(<<"1">>)), <<"c", "o", "l", "o", "r">>, PArray(<<PInteger(0), PInteger(0), PInteger(0), PInteger(255)>>)), <<"o", "f", "f", "s", "e", "t", "X">>, PString(<<"1">>)), <<"o", "f", "f", "s", "e", "t", "Y">>, PString(<<>>)))), <<"g", "r", "a", "d", "i", "e", "n", "t">>, PDict(Insert(Insert(Insert(Insert(EmptyMap, <<"c", "o", "l", "o", "r", "s">>, PArray(<<PArray(<<PArray(<<PInteger(0), PInteger(0), PInteger(0), PInteger(255)>>), PInteger(1)>>)>>)), <<"s", "t", "a", "r", "t">>, PArray(<<PInteger(0), PInteger(0)>>)), <<"e", "n", "d">>, PArray(<<PInteger(1), PInteger(1)>>)), <<"t", "y", "p", "e">>, PString(<<"l", "i", "n", "e", "a", "r">>))))),
       PDict(Insert(Insert(Insert(EmptyMap, <<"n", "a", "m", "e">>, PString(<<"a", "b", "c">>)), <<"t", "a", "g">>, PString(<<"w", "g", "h", "t">>)), <<"h", "i", "d", "d", "e", "n">>, PInteger(1))),
       PDict(Insert(Insert(EmptyMap, <<"p", "o", "s">>, PFloat(F64(FALSE, 5, 0 - 1))), <<"o", "v", "e", "r">>, PInteger(16))),
       PDict(Insert(Insert(Insert(EmptyMap, <<"n", "a", "m", "e">>, PString(<<>>)), <<"f", "i", "l", "t", "e", "r">>, PString(<<"a", "b", "c">>)), <<"h", "o", "r", "i", "z", "o", "n", "t", "a", "l">>, PInteger(1))),
       PDict(Insert(Insert(Insert(Insert(Insert(Insert(Insert(Insert(Insert(EmptyMap, <<".", "a", "p", "p", "V", "e", "r", "s", "i", "o", "n">>, PString(<<"3", "2", "5", "9">>)), <<"d", "a", "t", "e">>, PString(<<"d">>)), <<"f", "a", "m", "i", "l", "y", "N", "a", "m", "e">>, PString(<<"N", "e", "w", " ", "F", "o", "n", "t">>)), <<"v", "e", "r", "s", "i", "o", "n", "M", "a", "j", "o", "r">>, PInteger(1)), <<"v", "e", "r", "s", "i", "o", "n", "M", "i", "n", "o", "r">>, PInteger(0)), <<"u", "n", "i", "t", "s", "P", "e", "r", "E", "m">>, PInteger(1000)), <<"g", "l", "y", "p", "h", "s">>, PArray(<<>>)), <<"f", "o", "n", "t", "M", "a", "s", "t", "e", "r">>, PArray(<<>>)), <<"m", "e", "t", "r", "i", "c", "s">>, PArray(<<>>))),
       PDict(Insert(Insert(Insert(Insert(Insert(Insert(Insert(Insert(Insert(Insert(Insert(Insert(Insert(Insert(Insert(EmptyMap, <<".", "a", "p", "p", "V", "e", "r", "s", "i", "o", "n">>, PString(<<"3", "2", "5", "9">>)), <<".", "f", "o", "r", "m", "a", "t", "V", "e", "r", "s", "i", "o", "n">>, PInteger(3)), <<"d", "a", "t", "e">>, PString(<<"d">>)), <<"f", "a", "m", "i", "l", "y", "N", "a", "m", "e">>, PString(<<"N", "e", "w", " ", "F", "o", "n", "t">>)), <<"v", "e", "r", "s", "i", "o", "n", "M", "a", "j", "o", "r">>, PInteger(1)), <<"v", "e", "r", "s", "i", "o", "n", "M", "i", "n", "o", "r">>, PInteger(0)), <<"u", "n", "i", "t", "s", "P", "e", "r", "E", "m">>, PInteger(1000)), <<"g", "l", "y", "p", "h", "s">>, PArray(<<>>)), <<"f", "o", "n", "t", "M", "a", "s", "t", "e", "r">>, PArray(<<PDict(Insert(Insert(Insert(Insert(Insert(EmptyMap, <<"i", "d">>, PString(<<"m", "0", "1">>)), <<"n", "a", "m", "e">>, PString(<<"R", "e", "g", "u", "l", "a", "r">>)), <<"m", "e", "t", "r", "i", "c", "V", "a", "l", "u", "e", "s">>, PArray(<<PDict(Insert(Insert(EmptyMap, <<"p", "o", "s">>, PInteger(800)), <<"o", "v", "e", "r">>, PInteger(16))), PDict(Insert(EmptyMap, <<"o", "v", "e", "r">>, PInteger(0 - 16)))>>)), <<"a", "x", "e", "s", "V", "a", "l", "u", "e", "s">>, PArray(<<PFloat(F64(FALSE, 5, 0 - 1))>>)), <<"v", "i", "s", "i", "b", "l", "e">>, PInteger(0)))>>)), <<"m", "e", "t", "r", "i", "c", "s">>, PArray(<<PDict(Insert(EmptyMap, <<"t", "y", "p", "e">>, PString(<<"a", "s", "c", "e", "n", "d", "e", "r">>))), PDict(Insert(EmptyMap, <<"n", "a", "m", "e">>, PString(<<"a", "b", "c">>)))>>)), <<"n", "u", "m", "b", "e", "r", "s">>, PArray(<<PDict(Insert(EmptyMap, <<"n", "a", "m", "e">>, PString(<<"n">>)))>>)), <<"s", "e", "t", "t", "i", "n", "g", "s">>, PDict(Insert(EmptyMap, <<"d", "i", "s", "a", "b", "l", "e", "s", "N", "i", "c", "e", "N", "a", "m", "e", "s">>, PInteger(1)))), <<"a", "x", "e", "s">>, PArray(<<PDict(Insert(Insert(EmptyMap, <<"n", "a", "m", "e">>, PString(<<"W", "e", "i", "g", "h", "t">>)), <<"t", "a", "g">>, PString(<<"w", "g", "h", "t">>)))>>)), <<"u", "s", "e", "r", "D", "a", "t", "a">>, PDict(Insert(EmptyMap, <<"k">>, PInteger(1)))), <<"z", "z">>, PInteger(1))),
       PDict(Insert(Insert(EmptyMap, <<"t", "y", "p", "e">>, PString(<<"x", "-", "h", "e", "i", "g", "h", "t">>)), <<"z", "z">>, PInteger(1))),
       PString(<<>>),
       PString(<<"a", "s", "c", "e", "n", "d", "e", "r">>),
       PInteger(1),
       PInteger(70000),
       PString(<<"a", "b", "c">>),
       PString(<<"v", "a", "r", "i", "a", "b", "l", "e">>),
       PFloat(F64(FALSE, 5, 0 - 1)),
       PArray(<<>>),
       PArray(<<PInteger(1), PInteger(2)>>),
       PArray(<<PInteger(0), PInteger(0), PInteger(0), PInteger(256)>>),
       PArray(<<PInteger(0), PInteger(0), PString(<<"l">>)>>),
       PArray(<<PInteger(0), PInteger(0), PString(<<"l">>), PInteger(1)>>),
       PArray(<<PString(<<"a">>), PString(<<"b">>)>>),
       PInteger(0),
       PInteger(2),
       PInteger(0 - 1),
       PString(<<"1">>),
       PString(<<"0">>),
       PInteger(65535),
       PInteger(65536),
       PString(<<"1", "2">>),
       PFloat(F64(FALSE, 2, 0)),
       PFloat(F64(TRUE, 3, 0)),
       PFloat(F64(TRUE, 0, 0)),
       PFloat(F64(FALSE, 25, 0 - 1)),
       PFloat(F64(FALSE, 1, 0 - 17)),
       PInteger(3),
       PArray(<<PInteger(7)>>),
       PArray(<<PInteger(1), PInteger(2), PInteger(3)>>),
       PArray(<<PInteger(1), PInteger(2), PInteger(3), PInteger(4), PInteger(5)>>),
       PArray(<<PInteger(1), PInteger(2), PInteger(3), PInteger(4), PInteger(5), PInteger(6)>>),
       PArray(<<PInteger(0), PInteger(255)>>),
       PArray(<<PInteger(0 - 1), PInteger(2)>>),
       PArray(<<PInteger(300), PInteger(1), PInteger(2)>>),
       PArray(<<PInteger(0), PInteger(0), PInteger(0), PInteger(255)>>),
       PInteger(55295),
       PInteger(55296),
       PInteger(57343),
       PInteger(57344),
       PInteger(1114111),
       PInteger(1114112),
       PArray(<<PInteger(65), PInteger(55296), PInteger(0 - 1)>>),
       PArray(<<PInteger(0 - 1), PString(<<"a">>)>>),
       PArray(<<PInteger(65), PInteger(65)>>),
       PArray(<<PInteger(65), PString(<<"a">>), PInteger(0 - 1)>>),
       PArray(<<PInteger(1), PString(<<"x">>)>>),
       PArray(<<PInteger(1), PInteger(2), PString(<<"z", "z">>)>>),
       PArray(<<PInteger(1), PFloat(F64(FALSE, 25, 0 - 1)), PString(<<"c", "s">>), PDict(EmptyMap)>>),
       PArray(<<PInteger(1), PInteger(2), PString(<<"l">>), PDict(EmptyMap), PInteger(5)>>),
       PArray(<<PInteger(1), PInteger(2), PString(<<"q">>), PDict(Insert(EmptyMap, <<"n", "a", "m", "e">>, PString(<<"a", "b", "c">>))), PArray(<<>>), PString(<<"x">>)>>),
       PDict(Insert(EmptyMap, <<"m", "0", "1">>, PDict(Insert(Insert(EmptyMap, <<"a">>, PDict(Insert(Insert(EmptyMap, <<"b">>, PInteger(0 - 10)), <<"c">>, PFloat(F64(FALSE, 55, 0 - 1))))), <<"b">>, PDict(EmptyMap))))),
       PDict(Insert(EmptyMap, <<"m", "0", "1">>, PInteger(1))),
       PDict(Insert(EmptyMap, <<"m", "0", "1">>, PDict(Insert(EmptyMap, <<"a">>, PInteger(1))))),
       PDict(Insert(EmptyMap, <<"m", "0", "1">>, PDict(Insert(EmptyMap, <<"a">>, PDict(Insert(EmptyMap, <<"b">>, PString(<<"x">>))))))),
       PDict(Insert(EmptyMap, <<"m", "0", "1">>, PDict(Insert(EmptyMap, <<"a">>, PDict(Insert(Insert(EmptyMap, <<"b">>, PString(<<"x">>)), <<"c">>, PArray(<<>>))))))),
       PDict(Insert(EmptyMap, <<"m", "0", "1">>, PDict(Insert(EmptyMap, <<"a">>, PDict(Insert(EmptyMap, <<>>, PInteger(1))))))),
       PDict(Insert(Insert(EmptyMap, <<"m", "0", "1">>, PDict(Insert(Insert(EmptyMap, <<"a">>, PDict(Insert(EmptyMap, <<"b">>, PString(<<"x">>)))), <<"c">>, PInteger(1)))), <<"m", "0", "2">>, PDict(EmptyMap))),
       PDict(Insert(Insert(Insert(EmptyMap, <<"g", "l", "y", "p", "h", "n", "a", "m", "e">>, PString(<<"a">>)), <<"l", "a", "y", "e", "r", "s">>, PArray(<<>>)), <<"u", "n", "i", "c", "o", "d", "e">>, PArray(<<>>))),
       PDict(Insert(Insert(Insert(Insert(Insert(EmptyMap, <<"g", "l", "y", "p", "h", "n", "a", "m", "e">>, PString(<<"a">>)), <<"l", "a", "y", "e", "r", "s">>, PArray(<<>>)), <<"u", "n", "i", "c", "o", "d", "e">>, PArray(<<PInteger(65), PInteger(66)>>)), <<"e", "x", "p", "o", "r", "t">>, PInteger(0)), <<"z", "z">>, PInteger(1))),
       PDict(Insert(Insert(Insert(Insert(EmptyMap, <<"g", "l", "y", "p", "h", "n", "a", "m", "e">>, PString(<<"a">>)), <<"l", "a", "y", "e", "r", "s">>, PArray(<<>>)), <<"u", "n", "i", "c", "o", "d", "e">>, PInteger(65)), <<"k", "e", "r", "n", "L", "e", "f", "t">>, PString(<<"b">>))),
       PDict(Insert(Insert(EmptyMap, <<"r", "e", "f">>, PString(<<"a", "b", "c">>)), <<"a", "n", "g", "l", "e">>, PFloat(F64(FALSE, 1, 0 - 17)))) >>

\* Path::new
path_new(closed) ==
    [id \in { <<"a", "t", "t", "r">>, <<"c", "l", "o", "s", "e", "d">>,
              <<"n", "o", "d", "e", "s">> } |->
        CASE id = <<"a", "t", "t", "r">> -> None
          [] id = <<"c", "l", "o", "s", "e", "d">> -> closed
          [] OTHER -> <<>>]

Init ==
    /\ target \in 1..Len(Targets)
    /\ input = PDict(EmptyMap)
    /\ made = "none"
    /\ dec = [st |-> "None"]
    /\ enc = None
    /\ InitTextIdle
    /\ InitInteropIdle

\* The caller adds an entry to the dictionary.
Put ==
    /\ made = "none"
    /\ target \in BuiltFor
    /\ input.t = "Dictionary"
    /\ Cardinality(DOMAIN input.v) < MaxKeys
    /\ \E k \in (WireKeys(Targets[target].of) \cup Undeclared) \ DOMAIN input.v :
       \E i \in 1..Len(Values) :
          input' = PDict(Insert(input.v, k, Values[i]))
    /\ UNCHANGED <<target, made, dec, enc, textVars, interopVars>>

\* The caller takes a fixture instead.
Given ==
    /\ made = "none"
    /\ input.t = "Dictionary"
    /\ DOMAIN input.v = {}
    /\ \E i \in 1..Len(GivenInputs) : input' = GivenInputs[i]
    /\ UNCHANGED <<target, made, dec, enc, textVars, interopVars>>

\* T::try_from(input)
Decode ==
    /\ made = "none"
    /\ made' = "try_from"
    /\ dec' \in try_from_results(Targets[target], input)
    /\ UNCHANGED <<target, input, enc, textVars, interopVars>>

\* Path::new(closed)
New ==
    /\ made = "none"
    /\ Targets[target].k = "Record"
    /\ Targets[target].of = "Path"
    /\ input.t = "Dictionary"
    /\ DOMAIN input.v = {}
    /\ \E closed \in BOOLEAN :
          /\ made' = "new"
          /\ dec' = CvOk(path_new(closed))
    /\ UNCHANGED <<target, input, enc, textVars, interopVars>>

\* value.to_plist(); FooBar derives FromPlist only, and the assertion in
\* ToPlist for Codepoints stops the program on an empty set.
Encode ==
    /\ dec.st = "Ok"
    /\ ~enc.some
    /\ ~(Targets[target].k = "Record" /\ Targets[target].of = "FooBar")
    /\ ~to_plist_panics(Targets[target], dec.val)
    /\ enc' = Some(to_plist(Targets[target], dec.val))
    /\ UNCHANGED <<target, input, made, dec, textVars, interopVars>>

Next == Put \/ Given \/ Decode \/ New \/ Encode

Spec == Init /\ [][Next]_vars

(***************************************************************************)
(* Conversions to and from norad: components.  The f64 arithmetic is done  *)
(* on the decimal representation, exactly; the values of the model have    *)
(* short mantissas, so that no product leaves the integers.                *)
(***************************************************************************)

\* -a
FNeg(a) == IF a.c = "nan" THEN a ELSE [a EXCEPT !.neg = ~a.neg]

\* a * b
FMul(a, b) ==
    CASE a.c = "nan" \/ b.c = "nan" -> F64NaN
      [] a.c = "inf" \/ b.c = "inf" ->
            IF (a.c = "num" /\ a.m = 0) \/ (b.c = "num" /\ b.m = 0) THEN F64NaN
            ELSE F64Inf(a.neg # b.neg)
      [] OTHER -> F64Norm(a.neg # b.neg, a.m * b.m, a.e + b.e)

\* a + b
FAdd(a, b) ==
    CASE a.c = "nan" \/ b.c = "nan" -> F64NaN
      [] a.c = "inf" /\ b.c = "inf" -> IF a.neg = b.neg THEN a ELSE F64NaN
      [] a.c = "inf" -> a
      [] b.c = "inf" -> b
      [] a.m = 0 /\ b.m = 0 -> F64(a.neg /\ b.neg, 0, 0)
      [] a.m = 0 -> b
      [] b.m = 0 -> a
      [] OTHER ->
            LET e == IF a.e < b.e THEN a.e ELSE b.e
                x == (IF a.neg THEN 0 - 1 ELSE 1) * a.m * Pow10(a.e - e)
                y == (IF b.neg THEN 0 - 1 ELSE 1) * b.m * Pow10(b.e - e)
            IN  F64Norm(x + y < 0, IF x + y < 0 THEN 0 - (x + y) ELSE x + y, e)

\* a < b
FLess(a, b) ==
    LET d == FAdd(a, FNeg(b))
    IN  d.c # "nan" /\ d.neg /\ (d.c = "inf" \/ d.m > 0)

\* transform_struct_to_scale_and_rotation
transform_struct_to_scale_and_rotation(transform) ==
    LET zero == F64(FALSE, 0, 0)
        deg(n) == F64Norm(FALSE, n, 0)
        abs(a) == IF a.c = "nan" THEN a ELSE [a EXCEPT !.neg = FALSE]
        \* (x.powi(2) + y.powi(2)).sqrt() where one of the two is zero: the
        \* root of a square
        root(x, y) ==
            CASE x.c = "num" /\ y.c = "num" /\ y.m = 0 -> abs(x)
              [] x.c = "num" /\ y.c = "num" /\ x.m = 0 -> abs(y)
        \* y.atan2(x) * 180.0 / PI for y = 0.0 or -0.0: 0 on the positive
        \* half of the axis and 180 on the negative half, with the sign of y
        atan2_deg(y, x) ==
            CASE y.c = "num" /\ y.m = 0 /\ x.c = "num" ->
                    IF x.neg THEN F64(y.neg, 18, 1) ELSE F64(y.neg, 0, 0)
        \* a / b
        div(a, b) ==
            CASE a.c = "nan" \/ b.c = "nan" -> F64NaN
              [] a.c = "num" /\ b.c = "num" /\ a.m = 0 /\ b.m = 0 -> F64NaN
              [] a.c = "num" /\ b.c = "num" /\ b.m = 0 -> F64Inf(a.neg # b.neg)
              [] a.c = "num" /\ b.c = "num" /\ a.m = 0 -> F64(a.neg # b.neg, 0, 0)
              [] a.c = "num" /\ b.c = "num" /\ b.m = 1 ->
                    F64Norm(a.neg # b.neg, a.m, a.e - b.e)
        det == FAdd(FMul(transform.x_scale, transform.y_scale),
                    FNeg(FMul(transform.xy_scale, transform.yx_scale)))
        \* the mutable locals s_x, s_y, r and quadrant, statement by statement
        start == [s_x |-> root(transform.x_scale, transform.xy_scale),
                  s_y |-> root(transform.yx_scale, transform.y_scale),
                  r |-> zero, quadrant |-> zero]
        \* if det < 0.0 { s_y = -s_y; }
        negate(l) == IF FLess(det, zero) THEN [l EXCEPT !.s_y = FNeg(l.s_y)] ELSE l
        \* let mut r = (xy_scale * s_y).atan2(x_scale * s_x) * 180.0 / PI;
        angle(l) ==
            [l EXCEPT !.r = atan2_deg(FMul(transform.xy_scale, l.s_y),
                                      FMul(transform.x_scale, l.s_x))]
        \* if det < 0.0 && (r.abs() > 135.0 || r < -90.0) { ... }
        flip(l) ==
            IF FLess(det, zero) /\ (FLess(deg(135), abs(l.r)) \/ FLess(l.r, FNeg(deg(90))))
            THEN [l EXCEPT !.s_x = FNeg(l.s_x), !.s_y = FNeg(l.s_y),
                           !.r = IF FLess(l.r, zero) THEN FAdd(l.r, deg(180))
                                 ELSE FAdd(l.r, FNeg(deg(180)))]
            ELSE l
        \* if r < -90.0 { quadrant = 180.0; r += quadrant; }
        low(l) ==
            IF FLess(l.r, FNeg(deg(90)))
            THEN [l EXCEPT !.quadrant = deg(180), !.r = FAdd(l.r, deg(180))]
            ELSE l
        \* if r > 90.0 { quadrant = -180.0; r += quadrant; }
        high(l) ==
            IF FLess(deg(90), l.r)
            THEN [l EXCEPT !.quadrant = FNeg(deg(180)), !.r = FAdd(l.r, FNeg(deg(180)))]
            ELSE l
        \* r = r * s_x / s_y; r -= quadrant;
        rescale(l) ==
            [l EXCEPT !.r = FAdd(div(FMul(l.r, l.s_x), l.s_y), FNeg(l.quadrant))]
        \* if r < -179.0 { r += 360.0; }
        wrap(l) == IF FLess(l.r, FNeg(deg(179))) THEN [l EXCEPT !.r = FAdd(l.r, deg(360))] ELSE l
        \* (s_x, s_y, r)
        result(l) == <<l.s_x, l.s_y, l.r>>
    IN  result(wrap(rescale(high(low(flip(angle(negate(start))))))))

\* From<&norad::Component> for Component: rotation, scale and pos.  The
\* default of AffineTransform is the identity.
component_from(transform) ==
    LET default ==
            [x_scale |-> F64(FALSE, 1, 0), xy_scale |-> F64(FALSE, 0, 0),
             yx_scale |-> F64(FALSE, 0, 0), y_scale |-> F64(FALSE, 1, 0),
             x_offset |-> F64(FALSE, 0, 0), y_offset |-> F64(FALSE, 0, 0)]
        srt == transform_struct_to_scale_and_rotation(transform)
    IN  IF \A k \in DOMAIN transform : F64Eq(transform[k], default[k])
        THEN [rotation |-> None, pos |-> None, scale |-> None, slant |-> None]
        ELSE [rotation |-> Some(srt[3]),
              pos |-> Some(Pair(transform.x_offset, transform.y_offset)),
              scale |-> Some(Pair(srt[1], srt[2])),
              slant |-> None]

\* f64_precision: (v * 10^precision).round() / 10^precision, rounding half
\* away from zero
f64_precision(v, precision) ==
    IF v.c # "num" \/ v.e >= 0 - precision THEN v
    ELSE LET k == 0 - precision - v.e
         IN  IF k > 9 THEN F64(v.neg, 0, 0)
             ELSE F64Norm(v.neg,
                          (v.m \div Pow10(k))
                            + (IF 2 * (v.m % Pow10(k)) >= Pow10(k) THEN 1 ELSE 0),
                          0 - precision)

\* TryFrom<&Component> for norad::Component: the transform.  The component
\* refers to a glyph that norad accepts.
component_try_from(component) ==
    LET zero == F64(FALSE, 0, 0)
        one == F64(FALSE, 1, 0)
        offset_x == IF component.pos.some THEN component.pos.v.x ELSE zero
        offset_y == IF component.pos.some THEN component.pos.v.y ELSE zero
        degrees == IF component.rotation.some THEN component.rotation.v ELSE zero
        scale_x == IF component.scale.some THEN component.scale.v.x ELSE one
        scale_y == IF component.scale.some THEN component.scale.v.y ELSE one
        skew_x == IF component.slant.some THEN component.slant.v.x ELSE zero
        skew_y == IF component.slant.some THEN component.slant.v.y ELSE zero
        \* the cosine and the sine of degrees.to_radians(), at 0 and at 180:
        \* the sine of the f64 nearest to pi is 1.2246e-16
        cos == CASE degrees.c # "num" -> F64NaN
                 [] degrees.m = 0 -> one
                 [] degrees.m = 18 /\ degrees.e = 1 -> FNeg(one)
        sin == CASE degrees.c # "num" -> F64NaN
                 [] degrees.m = 0 -> degrees
                 [] degrees.m = 18 /\ degrees.e = 1 -> F64(degrees.neg, 12246, 0 - 20)
        \* the tangent of a skew of 0
        tan(x) == CASE x.c = "num" /\ x.m = 0 -> x
        \* kurbo's Affine, as its six coefficients, and its product
        mul(a, b) ==
            << FAdd(FMul(a[1], b[1]), FMul(a[3], b[2])),
               FAdd(FMul(a[2], b[1]), FMul(a[4], b[2])),
               FAdd(FMul(a[1], b[3]), FMul(a[3], b[4])),
               FAdd(FMul(a[2], b[3]), FMul(a[4], b[4])),
               FAdd(FAdd(FMul(a[1], b[5]), FMul(a[3], b[6])), a[5]),
               FAdd(FAdd(FMul(a[2], b[5]), FMul(a[4], b[6])), a[6]) >>
        translate == <<one, zero, zero, one, offset_x, offset_y>>
        rotate == <<cos, sin, FNeg(sin), cos, zero, zero>>
        scale_non_uniform == <<scale_x, zero, zero, scale_y, zero, zero>>
        skew == <<one, tan(skew_y), tan(skew_x), one, zero, zero>>
        \* the transform norad gets of the coefficients
        rounded(as_coeffs) ==
            [x_scale |-> f64_precision(as_coeffs[1], 5),
             xy_scale |-> f64_precision(as_coeffs[2], 5),
             yx_scale |-> f64_precision(as_coeffs[3], 5),
             y_scale |-> f64_precision(as_coeffs[4], 5),
             x_offset |-> f64_precision(as_coeffs[5], 5),
             y_offset |-> f64_precision(as_coeffs[6], 5)]
    IN  rounded(mul(mul(mul(translate, rotate), scale_non_uniform), skew))

\* TryFrom<&Path> for norad::Contour, with TryFrom<&Node> for
\* norad::ContourPoint
contour_try_from(path) ==
    LET typ(node) ==
            CASE node.node_type \in { <<"c">>, <<"c", "s">> } -> "Curve"
              [] node.node_type \in { <<"l">>, <<"l", "s">> } -> "Line"
              [] node.node_type = <<"o">> -> "OffCurve"
              [] node.node_type \in { <<"q">>, <<"q", "s">> } -> "QCurve"
        smooth(node) == node.node_type \in { <<"c", "s">>, <<"l", "s">>, <<"q", "s">> }
        named(node) == node.attr.some /\ node.attr.v.name.some
        points == [i \in 1..Len(path.nodes) |->
                    [x |-> path.nodes[i].pt.x, y |-> path.nodes[i].pt.y,
                     typ |-> typ(path.nodes[i]), smooth |-> smooth(path.nodes[i]),
                     name |-> IF named(path.nodes[i])
                              THEN Some(path.nodes[i].attr.v.name.v) ELSE None]]
    IN  IF \E i \in 1..Len(path.nodes) :
              named(path.nodes[i]) /\ ~name_is_valid(path.nodes[i].attr.v.name.v)
        THEN CvErr("NamingError", "Name", 0)
        ELSE IF points = <<>> THEN CvOk(points)
        ELSE IF ~path.closed
        THEN IF points[1].typ # "Line"
             THEN CvPanic("assertion failed: points[0].typ == norad::PointType::Line")
             ELSE CvOk([points EXCEPT ![1].typ = "Move"])
        ELSE \* points.rotate_right(1)
             CvOk(<<points[Len(points)]>> \o SubSeq(points, 1, Len(points) - 1))

\* From<&norad::Contour> for Path, with From<&norad::ContourPoint> for Node.
\* A contour is closed unless its first point is a Move.
path_from(points) ==
    LET is_closed == points = <<>> \/ points[1].typ # "Move"
        node_type(point) ==
            CASE point.typ = "Move" -> <<"l">>
              [] point.typ = "Line" -> IF point.smooth THEN <<"l", "s">> ELSE <<"l">>
              [] point.typ = "OffCurve" -> <<"o">>
              [] point.typ = "Curve" -> IF point.smooth THEN <<"c", "s">> ELSE <<"c">>
              [] point.typ = "QCurve" -> IF point.smooth THEN <<"q", "s">> ELSE <<"q">>
        nodes == [i \in 1..Len(points) |->
                    [pt |-> Pair(points[i].x, points[i].y),
                     node_type |-> node_type(points[i]),
                     attr |-> IF points[i].name.some
                              THEN Some([name |-> Some(points[i].name.v),
                                         other_stuff |-> EmptyMap])
                              ELSE None]]
    IN  [attr |-> None,
         closed |-> is_closed,
         nodes |-> IF is_closed /\ nodes # <<>>
                   THEN \* nodes.rotate_left(1)
                        SubSeq(nodes, 2, Len(nodes)) \o <<nodes[1]>>
                   ELSE nodes]

MaxNodes == 2

\* A caller holds the transform of a norad component: without shear, its
\* scales and offsets from -10000 to just below 10000.  Or it holds a Path
\* without attributes, of nodes without attributes.
InitInterop ==
    /\ LET Scales ==
              { F64(TRUE, 1, 4), F64(TRUE, 1, 0), F64(TRUE, 0, 0), F64(FALSE, 0, 0),
                F64(FALSE, 4, 0 - 6), F64(FALSE, 1, 0), F64(FALSE, 25, 0 - 1),
                F64(FALSE, 9999, 0) }
           Offsets ==
              { F64(TRUE, 1, 4), F64(FALSE, 0, 0), F64(FALSE, 25, 1), F64(FALSE, 657, 0),
                F64(FALSE, 123456, 0 - 6) }
           NodeTypes ==
              { <<"l">>, <<"l", "s">>, <<"c">>, <<"c", "s">>, <<"q">>, <<"q", "s">>,
                <<"o">> }
           Nodes(n) ==
              { [i \in 1..n |->
                    [pt |-> Pair(F64Norm(FALSE, 303 + i, 0), F64(FALSE, 128, 0)),
                     node_type |-> types[i], attr |-> None]] :
                types \in [1..n -> NodeTypes] }
       IN  \/ /\ transform1 \in
                    [x_scale : Scales, xy_scale : {F64(FALSE, 0, 0)},
                     yx_scale : {F64(FALSE, 0, 0)},
                     y_scale : Scales, x_offset : Offsets, y_offset : Offsets]
              /\ path1 = <<>>
           \/ /\ transform1 = <<>>
              /\ path1 \in [attr : {None}, closed : BOOLEAN,
                             nodes : UNION { Nodes(n) : n \in 0..MaxNodes }]
    /\ glyphs_component = None
    /\ transform2 = None
    /\ contour = None
    /\ path2 = None
    \* no text is held and no Plist is converted
    /\ target = 1
    /\ input = PDict(EmptyMap)
    /\ made = "none"
    /\ dec = [st |-> "None"]
    /\ enc = None
    /\ InitTextIdle

\* (&norad_component1).into()
ComponentFromNorad ==
    /\ transform1 # <<>>
    /\ ~glyphs_component.some
    /\ glyphs_component' = Some(component_from(transform1))
    /\ UNCHANGED <<transform1, transform2, path1, contour, path2, textVars, codecVars>>

\* (&glyphs_component).try_into()
ComponentTryIntoNorad ==
    /\ glyphs_component.some
    /\ ~transform2.some
    /\ transform2' = Some(component_try_from(glyphs_component.v))
    /\ UNCHANGED <<transform1, glyphs_component, path1, contour, path2, textVars, codecVars>>

\* norad::Contour::try_from(&path)
ContourTryFromPath ==
    /\ path1 # <<>>
    /\ ~contour.some
    /\ contour' = Some(contour_try_from(path1))
    /\ UNCHANGED <<transform1, glyphs_component, transform2, path1, path2, textVars, codecVars>>

\* Path::from(&contour)
PathFromContour ==
    /\ contour.some
    /\ contour.v.st = "Ok"
    /\ ~path2.some
    /\ path2' = Some(path_from(contour.v.val))
    /\ UNCHANGED <<transform1, glyphs_component, transform2, path1, contour, textVars, codecVars>>

NextInterop ==
    ComponentFromNorad \/ ComponentTryIntoNorad \/ ContourTryFromPath \/ PathFromContour

\* The conversions to and from norad alone.
SpecInterop == InitInterop /\ [][NextInterop]_vars

(***************************************************************************)
(* Properties of the text engine                                           *)
(***************************************************************************)

Reparsed == back.ok \/ back.err # "NotRun"

\* The whole of s is one bareword atom.
IsAtomText(s) == s # <<>> /\ All(s, is_alnum)

\* The numeric-ambiguity rule of the specification, step by step.
AtomRule(s) ==
    IF All(s, LAMBDA b : b \in Digit \cup {"A", "B", "C", "D", "E", "F"})
       /\ \E i \in 1..Len(s) : s[i] \notin Digit
    THEN PString(s)
    ELSE IF Len(s) > 1 /\ s[1] = "0" /\ All(s, LAMBDA b : b \in Digit)
    THEN PString(s)
    ELSE IF parse_i64(s).ok THEN PInteger(parse_i64(s).val)
    ELSE IF parse_f64(s).ok THEN PFloat(parse_f64(s).val)
    ELSE PString(s)

\* C1: every value that Plist::parse returns is read back unchanged from its
\* canonical text: parse(to_text(v)) succeeds and equals v.
C1_RoundTrip ==
    (origin = "parse" /\ tree.ok /\ Reparsed)
        => (back.ok /\ PlistEq(back.val, tree.val))

\* C2: a Plist::String(s) is read back as Plist::String(s) from its printed
\* text, and a string printed without quotes is non-empty, has no '-' and is
\* not classified as a number when it is read as an atom.
C2_StringQuoting ==
    /\ (origin = "string" /\ Reparsed)
          => (back.ok /\ back.val.t = "String" /\ back.val.v = text)
    /\ (origin = "string" /\ out.some /\ out.v[1] # "\"")
          => /\ out.v = text
             /\ text # <<>>
             /\ \A i \in 1..Len(text) : text[i] # "-"
             /\ ~parse_f64(text).ok
             /\ parse_atom(out.v).t = "String"
    /\ (origin = "string" /\ out.some /\ text # <<>> /\ All(text, is_alnum_strict)
            /\ ~parse_f64(text).ok)
          => out.v = text

C2_Witness ==
    /\ origin = "string"
    /\ text = <<"1", "2", "3">>
    /\ out.some
    /\ out.v = <<"\"", "1", "2", "3", "\"">>
    /\ back.ok
    /\ back.val.t = "String"

\* C3: an unquoted atom in value position is classified by the three-step
\* numeric-ambiguity rule; 0123 and 1AB are strings, 0.5 is Float(0.5) and
\* -7 is Integer(-7).
C3_AtomClassification ==
    /\ (origin = "parse" /\ ~nested /\ IsAtomText(text))
          => (tree.ok /\ PlistSame(tree.val, AtomRule(text)))
    /\ (origin = "parse" /\ nested)
          => \A s \in Inputs :
                (IsAtomText(s) /\ text = Wrapped(s)[1])
                    => /\ tree.ok
                       /\ tree.val.t = "Array"
                       /\ Len(tree.val.v) = 2
                       /\ PlistSame(tree.val.v[1], AtomRule(s))
                       /\ PlistSame(tree.val.v[2], AtomRule(s))
    /\ (origin = "parse" /\ text = <<"0", "1", "2", "3">>)
          => (tree.val.t = "String" /\ tree.val.v = text)
    /\ (origin = "parse" /\ text = <<"1", "A", "B">>)
          => (tree.val.t = "String" /\ tree.val.v = text)
    /\ (origin = "parse" /\ text = <<"0", ".", "5">>)
          => (tree.val.t = "Float" /\ tree.val.v = F64(FALSE, 5, 0 - 1))
    /\ (origin = "parse" /\ text = <<"-", "7">>)
          => (tree.val.t = "Integer" /\ tree.val.v = 0 - 7)

C3_Witness ==
    /\ origin = "parse"
    /\ text = <<"0", "1", "2", "3">>
    /\ tree.ok
    /\ tree.val.t = "String"

\* The error variant that the parser returns for each place of a defect.
ErrorOf ==
    [ NoEquals |-> "ExpectedEquals", NoSemicolon |-> "ExpectedSemicolon",
      NoComma |-> "ExpectedComma", NoKey |-> "NotAString",
      OpenQuote |-> "UnclosedString", BadEscape |-> "UnknownEscape",
      Stray |-> "UnexpectedChar" ]

\* C11: Plist::parse returns an error, and no document, for malformed text:
\* ExpectedEquals for a pair without =, ExpectedSemicolon for a pair without
\* ;, ExpectedComma for an element followed by neither , nor ), NotAString
\* for {, ( or the end of input where a key belongs, UnclosedString for a
\* quote that is not closed, UnknownEscape for an unknown escape and
\* UnexpectedChar of the character for a character that starts no token;
\* the same error is returned when the defect is nested in a document.
C11_ParseErrors ==
    origin = "parse" =>
        \A kind \in DOMAIN Defects :
            \A m \in Defects[kind] :
                (\/ (~nested /\ text = m.text)
                 \/ (nested /\ m.nests /\ \E i \in 1..2 : text = Wrapped(m.text)[i]))
                    => tree = PErr(ErrorOf[kind], m.ch)

C11_Witness ==
    /\ origin = "parse"
    /\ nested
    /\ text = Wrapped(<<"{", "a", "=", "1", "}">>)[2]
    /\ ~tree.ok
    /\ tree.err = "ExpectedSemicolon"

(***************************************************************************)
(* Properties of the schema mapping                                        *)
(***************************************************************************)

\* The conversion under way targets a struct, and which.
IsRecord == Targets[target].k = "Record"
Struct == Targets[target].of

\* The fields of a struct that are not its rest field.
Declared(R) == { Fields(R)[i] : i \in {j \in 1..Len(Fields(R)) : ~Fields(R)[j].rest} }

\* A dictionary was decoded into a struct and the struct encoded again.
DecodedAndEncoded ==
    /\ IsRecord
    /\ made = "try_from"
    /\ input.t = "Dictionary"
    /\ dec.st = "Ok"
    /\ enc.some

\* The output dictionary maps key k to the Plist p.
Emits(k, p) ==
    /\ enc.v.t = "Dictionary"
    /\ k \in DOMAIN enc.v.v
    /\ PlistSame(enc.v.v[k], p)

\* C4: when a dictionary decodes into a struct with a rest field, every key
\* of the dictionary that is not the wire key of a declared field is in the
\* encoding of the decoded struct, mapped to its original value.
C4_RestPreserved ==
    (DecodedAndEncoded /\ consumes_rest(Struct))
        => \A k \in DOMAIN input.v \ WireKeys(Struct) : Emits(k, input.v[k])

C4_Witness ==
    /\ DecodedAndEncoded
    /\ Struct = "NodeAttrs"
    /\ DOMAIN input.v = { <<"n", "a", "m", "e">>, <<"b", "a", "r">>, <<"z", "z">> }
    /\ Emits(<<"b", "a", "r">>, PString(<<"d", "e", "f">>))
    /\ Emits(<<"z", "z">>, PArray(<<PInteger(1), PString(<<"x">>)>>))

\* C5: decoding a dictionary into a struct without a rest field, when every
\* declared field decodes and keys are left over, returns the error
\* UnrecognisedFields listing exactly the leftover keys.
C5_UnrecognisedFields ==
    (/\ IsRecord
     /\ made = "try_from"
     /\ input.t = "Dictionary"
     /\ ~consumes_rest(Struct)
     /\ decode_fields(Fields(Struct), 1, input.v, EmptyMap, <<>>).res.st = "Ok"
     /\ DOMAIN input.v \ WireKeys(Struct) # {})
        => /\ dec.st = "Err"
           /\ dec.e = "UnrecognisedFields"
           /\ dec.a = DOMAIN input.v \ WireKeys(Struct)

\* C6: encoding omits the key of every field that is not always-emit and
\* whose value equals its declared default, and maps the key of any other
\* value to the converted value; so a weight class of 400, a width class of
\* 5, a false flag and a zero metric are omitted and other values written.
C6_DefaultSuppression ==
    /\ (IsRecord /\ dec.st = "Ok" /\ enc.some)
          => \A fd \in Declared(Struct) :
                ~fd.always_serialise =>
                    IF TypedEq(fd.ty, dec.val[fd.ident], default_value(fd))
                    THEN plist_name(fd) \notin DOMAIN enc.v.v
                    ELSE Emits(plist_name(fd),
                               to_plist_opt(fd.ty, dec.val[fd.ident]).v)
    /\ (DecodedAndEncoded /\ Struct = "Instance")
          => LET wc == <<"w", "e", "i", "g", "h", "t", "C", "l", "a", "s", "s">>
                 wd == <<"w", "i", "d", "t", "h", "C", "l", "a", "s", "s">>
                 ex == <<"e", "x", "p", "o", "r", "t", "s">>
             IN  /\ wc \in DOMAIN enc.v.v
                    <=> (wc \in DOMAIN input.v /\ input.v[wc].v # 400)
                 /\ wd \in DOMAIN enc.v.v
                    <=> (wd \in DOMAIN input.v /\ input.v[wd].v # 5)
                 /\ ex \in DOMAIN enc.v.v
                    <=> (ex \in DOMAIN input.v /\ input.v[ex].v # 1)
                 /\ wd \in DOMAIN enc.v.v => Emits(wd, input.v[wd])
    /\ (DecodedAndEncoded /\ Struct \in {"Settings", "MasterMetric"})
          => \A k \in WireKeys(Struct) :
                k \in DOMAIN enc.v.v
                    <=> /\ k \in DOMAIN input.v
                        /\ ~(input.v[k].t = "Integer" /\ input.v[k].v = 0)
                        /\ ~(input.v[k].t = "Float" /\ input.v[k].v.m = 0)

C6_Witness ==
    /\ DecodedAndEncoded
    /\ Struct = "Instance"
    /\ <<"w", "i", "d", "t", "h", "C", "l", "a", "s", "s">> \in DOMAIN input.v
    /\ <<"w", "e", "i", "g", "h", "t", "C", "l", "a", "s", "s">> \in DOMAIN input.v
    /\ <<"w", "i", "d", "t", "h", "C", "l", "a", "s", "s">> \notin DOMAIN enc.v.v
    /\ Emits(<<"w", "e", "i", "g", "h", "t", "C", "l", "a", "s", "s">>, PInteger(700))

\* C7: encoding inserts every always-emit field, also when its value is the
\* declared default; Path.closed is written as Integer 0 for an open path
\* and Integer 1 for a closed one; an always-emit field of Option type that
\* is None contributes no key.
C7_AlwaysEmit ==
    /\ (IsRecord /\ dec.st = "Ok" /\ enc.some)
          => \A fd \in Declared(Struct) :
                fd.always_serialise =>
                    IF fd.ty.k = "Option"
                    THEN IF dec.val[fd.ident].some
                         THEN Emits(plist_name(fd), to_plist(fd.ty.of, dec.val[fd.ident].v))
                         ELSE plist_name(fd) \notin DOMAIN enc.v.v
                    ELSE Emits(plist_name(fd), to_plist(fd.ty, dec.val[fd.ident]))
    /\ (IsRecord /\ dec.st = "Ok" /\ enc.some /\ Struct = "Path")
          => Emits(<<"c", "l", "o", "s", "e", "d">>,
                   PInteger(IF dec.val[<<"c", "l", "o", "s", "e", "d">>] THEN 1 ELSE 0))

C7_Witness ==
    /\ DecodedAndEncoded
    /\ Struct = "Font"
    /\ ~dec.val[<<"f", "o", "r", "m", "a", "t", "_", "v", "e", "r", "s", "i", "o", "n">>].some
    /\ <<".", "f", "o", "r", "m", "a", "t", "V", "e", "r", "s", "i", "o", "n">>
            \notin DOMAIN enc.v.v
    /\ dec.val[<<"v", "e", "r", "s", "i", "o", "n", "_", "m", "i", "n", "o", "r">>] = 0
    /\ Emits(<<"v", "e", "r", "s", "i", "o", "n", "M", "i", "n", "o", "r">>, PInteger(0))
    /\ Emits(<<"g", "l", "y", "p", "h", "s">>, PArray(<<>>))

\* The field is Required: no default and not an Option.
IsRequired(fd) == fd.default.c = "None" /\ fd.ty.k # "Option"

\* The decoding of the fields declared before field i returned no error.
Reaches(R, i, hashmap) ==
    decode_fields(SubSeq(Fields(R), 1, i - 1), 1, hashmap, EmptyMap, <<>>).res.st = "Ok"

\* The fields whose converter the decoding of the input called.
Ran == decode_fields(Fields(Struct), 1, input.v, EmptyMap, <<>>).ran

\* C8: when the wire key of a declared field is absent, its converter is
\* not run and the field is resolved by its requiredness class alone: a
\* Required field that decoding reaches makes it return MissingField naming
\* the field, a field with a default expression gets that value, one with a
\* type default gets the type's default, an Option gets None; an absent
\* closed on Path decodes to true.
C8_AbsentKey ==
    /\ (IsRecord /\ made = "try_from" /\ input.t = "Dictionary")
          => \A i \in 1..Len(Fields(Struct)) :
                LET fd == Fields(Struct)[i]
                IN  (~fd.rest /\ plist_name(fd) \notin DOMAIN input.v)
                       => /\ \A j \in 1..Len(Ran) : Ran[j] # fd.ident
                          /\ (IsRequired(fd) /\ Reaches(Struct, i, input.v))
                                => /\ dec.st = "Err"
                                   /\ dec.e = "MissingField"
                                   /\ dec.a = fd.ident
                          /\ IsRequired(fd) => dec.st # "Ok"
                          /\ (dec.st = "Ok" /\ fd.default.c = "Expr")
                                => dec.val[fd.ident] = fd.default.v
                          /\ (dec.st = "Ok" /\ fd.default.c = "DefaultTrait")
                                => /\ fd.ty.k = "bool" => dec.val[fd.ident] = FALSE
                                   /\ fd.ty.k = "f64" => dec.val[fd.ident] = F64(FALSE, 0, 0)
                                   /\ fd.ty.k = "Map" => DOMAIN dec.val[fd.ident] = {}
                          /\ (dec.st = "Ok" /\ fd.default.c = "None")
                                => ~dec.val[fd.ident].some
    /\ (IsRecord /\ made = "try_from" /\ input.t = "Dictionary" /\ Struct = "Path"
            /\ dec.st = "Ok" /\ <<"c", "l", "o", "s", "e", "d">> \notin DOMAIN input.v)
          => dec.val[<<"c", "l", "o", "s", "e", "d">>] = TRUE

C8_Witness ==
    /\ IsRecord
    /\ Struct = "Path"
    /\ made = "try_from"
    /\ input.t = "Dictionary"
    /\ DOMAIN input.v = { <<"n", "o", "d", "e", "s">> }
    /\ dec.st = "Ok"
    /\ dec.val[<<"c", "l", "o", "s", "e", "d">>] = TRUE
    /\ ~dec.val[<<"a", "t", "t", "r">>].some
    /\ Ran = << <<"n", "o", "d", "e", "s">> >>

\* C9: decoding a dictionary whose only entry is an empty array for an
\* array-typed field (nodes of Path) succeeds, and encoding the struct maps
\* that key to an empty Array again.
C9_EmptyArrayRoundTrip ==
    (/\ IsRecord
     /\ Struct = "Path"
     /\ made = "try_from"
     /\ input.t = "Dictionary"
     /\ DOMAIN input.v = { <<"n", "o", "d", "e", "s">> }
     /\ input.v[<<"n", "o", "d", "e", "s">>].t = "Array"
     /\ input.v[<<"n", "o", "d", "e", "s">>].v = <<>>)
        => /\ dec.st = "Ok"
           /\ enc.some => Emits(<<"n", "o", "d", "e", "s">>, PArray(<<>>))

\* C10: decoding any Plist into any struct or scalar type returns the typed
\* value or a conversion error; no conversion panics.
C10_NoAbort ==
    made = "try_from" => dec.st \in {"Ok", "Err"}

(***************************************************************************)
(* Properties of the scalar converters                                     *)
(***************************************************************************)

\* T::try_from(enc): the written value read again.
Again == try_from(Targets[target], enc.v)

\* The conversion in hand is into the type of kind k.
Into(k) == Targets[target].k = k

\* try_from has been called on the input.
Tried(k) == Into(k) /\ made = "try_from"

\* C12: the bool converter takes Integer 0 and 1 and a String that parses
\* as the integer 0 or 1; another integer gives BadNumber, an unparseable
\* string or another variant gives WrongVariant; a bool is written as
\* Integer 0 or 1 and read back as the same bool.
C12_BoolConverter ==
    /\ (Tried("bool") /\ input.t = "Integer" /\ input.v \in {0, 1})
          => dec = CvOk(input.v = 1)
    /\ (Tried("bool") /\ input.t = "String" /\ parse_i64(input.v).ok
            /\ parse_i64(input.v).val \in {0, 1})
          => dec = CvOk(parse_i64(input.v).val = 1)
    /\ (Tried("bool") /\ input.t = "Integer" /\ input.v \notin {0, 1})
          => (dec.st = "Err" /\ dec.d = "BadNumber")
    /\ (Tried("bool") /\ input.t = "String" /\ ~parse_i64(input.v).ok)
          => (dec.st = "Err" /\ dec.d = "WrongVariant")
    /\ (Tried("bool") /\ input.t \in {"Float", "Array", "Dictionary"})
          => (dec.st = "Err" /\ dec.d = "WrongVariant")
    /\ (Into("bool") /\ enc.some)
          => enc.v = PInteger(IF dec.val THEN 1 ELSE 0)
    /\ (Into("bool") /\ enc.some) => Again = dec

\* C13: Integer(n) decodes into a u16 as n when 0 <= n <= 65535 and as
\* OutOfBounds(n) otherwise, for 70000 and for a negative n; a String, also a
\* non-numeric one, and every other variant give WrongVariant.
C13_U16Bounds ==
    /\ (Tried("u16") /\ input.t = "Integer" /\ input.v >= 0 /\ input.v <= 65535)
          => dec = CvOk(input.v)
    /\ (Tried("u16") /\ input.t = "Integer" /\ (input.v < 0 \/ input.v > 65535))
          => (dec.st = "Err" /\ dec.d = "OutOfBounds" /\ dec.a = input.v)
    /\ (Tried("u16") /\ input.t # "Integer")
          => (dec.st = "Err" /\ dec.d = "WrongVariant")
    /\ (Tried("u16") /\ input.t = "Integer" /\ input.v = 70000)
          => dec = CvErr("DownsizeToU16", "OutOfBounds", 70000)

C13_Witness ==
    /\ Tried("u16")
    /\ input.t = "Integer" /\ input.v = 70000
    /\ dec.st = "Err"
    /\ dec.d = "OutOfBounds"

\* The f64 has no fractional part: its normal form has no negative exponent.
IsWhole(f) == f.c = "num" /\ f.e >= 0

\* C14: a finite f64 is written as Integer(n) exactly when its fractional
\* part is zero and as Float(x) otherwise, and reading the written value as
\* an f64, an Integer widened and a Float as it is, gives x again.
C14_FloatNarrowing ==
    /\ (Into("f64") /\ enc.some /\ dec.val.c = "num")
          => /\ enc.v.t = "Integer" <=> IsWhole(dec.val)
             /\ enc.v.t = "Integer" => F64Eq(as_f64(enc.v).v, dec.val)
             /\ enc.v.t # "Integer" => (enc.v.t = "Float" /\ enc.v.v = dec.val)
    /\ (Into("f64") /\ enc.some /\ dec.val.c = "num")
          => (Again.st = "Ok" /\ F64Eq(Again.val, dec.val))

\* An Integer that fits a u8.
IsByte(p) == p.t = "Integer" /\ p.v >= 0 /\ p.v <= 255

IsScalar(n) == n >= 0 /\ n <= 1114111 /\ ~(n >= 55296 /\ n <= 57343)

\* The first item of an array that is not the Integer of a scalar value, or 0.
FirstNotScalar(a) ==
    IF \A i \in 1..Len(a) : a[i].t = "Integer" /\ IsScalar(a[i].v) THEN 0
    ELSE CHOOSE i \in 1..Len(a) :
            /\ ~(a[i].t = "Integer" /\ IsScalar(a[i].v))
            /\ \A j \in 1..(i - 1) : a[j].t = "Integer" /\ IsScalar(a[j].v)

\* C16: the Codepoints converter takes an Integer or an Array of Integers and
\* succeeds only when every number is a Unicode scalar value; the first
\* number that is not gives InvalidCodepoint with that number, and an item
\* that is not an Integer, or another variant, gives WrongVariant.
C16_Codepoints ==
    /\ (Tried("Codepoints") /\ input.t = "Integer")
          => IF IsScalar(input.v) THEN dec = CvOk(<<input.v>>)
             ELSE dec = CvErr("Codepoints", "InvalidCodepoint", input.v)
    /\ (Tried("Codepoints") /\ input.t = "Array")
          => LET i == FirstNotScalar(input.v)
             IN  CASE i = 0 ->
                        /\ dec.st = "Ok"
                        /\ \A j \in 1..Len(input.v) :
                              \E k \in 1..Len(dec.val) : dec.val[k] = input.v[j].v
                        /\ \A k \in 1..Len(dec.val) :
                              \E j \in 1..Len(input.v) : dec.val[k] = input.v[j].v
                   [] i # 0 /\ input.v[i].t = "Integer" ->
                        dec = CvErr("Codepoints", "InvalidCodepoint", input.v[i].v)
                   [] OTHER -> dec = CvErr("Codepoints", "WrongVariant", 0)
    /\ (Tried("Codepoints") /\ input.t \in {"String", "Float", "Dictionary"})
          => dec = CvErr("Codepoints", "WrongVariant", 0)

C16_Witness ==
    /\ Tried("Codepoints")
    /\ input.t = "Array"
    /\ Len(input.v) = 3
    /\ dec.st = "Err"
    /\ dec.d = "InvalidCodepoint"
    /\ dec.a = 55296


(***************************************************************************)
(* Properties of the tuple converters.                                     *)
(***************************************************************************)

\* The Plist is a number: as_f64 gives a value.
IsNumber(p) == as_f64(p).some

\* The seven tags of a node type.
NodeTags == { <<"l">>, <<"l", "s">>, <<"c">>, <<"c", "s">>, <<"q">>, <<"q", "s">>, <<"o">> }

\* The error of a conversion into Node is d.
NodeError(d) == dec.st = "Err" /\ dec.e = "Node" /\ dec.d = d

\* C17: the Node converter takes only an Array of 3 or 4 elements (x, y, one
\* of the seven type tags, and optional attributes); a missing first, second
\* or third element gives MissingX, MissingY or MissingType, a coordinate
\* that is not a number gives NotFloatX or NotFloatY, an unknown tag gives
\* InvalidType, and an Array of more than 4 elements is refused.
C17_NodeTuple ==
    (Tried("Node") /\ input.t = "Array")
      => LET a == input.v
         IN  /\ Len(a) = 0 => NodeError("MissingX")
             /\ (Len(a) >= 1 /\ ~IsNumber(a[1])) => NodeError("NotFloatX")
             /\ (Len(a) = 1 /\ IsNumber(a[1])) => NodeError("MissingY")
             /\ (Len(a) >= 2 /\ IsNumber(a[1]) /\ ~IsNumber(a[2])) => NodeError("NotFloatY")
             /\ (Len(a) = 2 /\ IsNumber(a[1]) /\ IsNumber(a[2])) => NodeError("MissingType")
             /\ (Len(a) >= 3 /\ IsNumber(a[1]) /\ IsNumber(a[2])
                    /\ ~(a[3].t = "String" /\ a[3].v \in NodeTags))
                  => NodeError("InvalidType")
             /\ dec.st = "Ok"
                  => /\ Len(a) \in {3, 4}
                     /\ dec.val.node_type = a[3].v
                     /\ dec.val.attr.some <=> Len(a) = 4
             /\ Len(a) > 4 => dec.st = "Err"

\* The error of a conversion into Point is d.
PointError(d) == dec.st = "Err" /\ dec.e = "Point" /\ dec.d = d

\* C18: the Point converter gives (x, y) for an Array of two numbers; an
\* Array of length 0 gives the error of the missing x and one of length 1
\* the error of the missing y, and a first or second element that is not a
\* number gives NotFloatX or NotFloatY.
C18_PointTuple ==
    (Tried("Point") /\ input.t = "Array")
      => LET a == input.v
         IN  /\ (Len(a) = 2 /\ IsNumber(a[1]) /\ IsNumber(a[2]))
                  => dec = CvOk(Pair(as_f64(a[1]).v, as_f64(a[2]).v))
             /\ (Len(a) = 2 /\ ~IsNumber(a[1])) => PointError("NotFloatX")
             /\ (Len(a) = 2 /\ IsNumber(a[1]) /\ ~IsNumber(a[2])) => PointError("NotFloatY")
             /\ Len(a) = 0 => PointError("MissingX")
             /\ (Len(a) = 1 /\ IsNumber(a[1])) => PointError("MissingY")


(***************************************************************************)
(* Properties of the kerning table.                                        *)
(***************************************************************************)

\* The levels of a kerning dictionary at which the shape is wrong: a master
\* that is not a Dictionary, a left glyph that is not a Dictionary, a leaf
\* that is not a number.
BadMasters(d) == { m \in DOMAIN d : d[m].t # "Dictionary" }
BadLefts(d) ==
    { <<m, l>> \in UNION { {<<m, l>> : l \in DOMAIN d[m].v} : m \in DOMAIN d \ BadMasters(d) } :
        d[m].v[l].t # "Dictionary" }
BadLeaves(d) ==
    { <<l, r>> \in
        UNION { UNION { {<<l, r>> : r \in DOMAIN d[m].v[l].v} :
                        l \in {x \in DOMAIN d[m].v : d[m].v[x].t = "Dictionary"} } :
                m \in DOMAIN d \ BadMasters(d) } :
        \E m \in DOMAIN d \ BadMasters(d) :
            /\ l \in DOMAIN d[m].v
            /\ d[m].v[l].t = "Dictionary"
            /\ r \in DOMAIN d[m].v[l].v
            /\ ~IsNumber(d[m].v[l].v[r]) }

\* C19: the kerning converter takes a Dictionary of masters of Dictionaries
\* of left glyphs of Dictionaries of right glyphs of numbers, and a wrong
\* shape at any of the three levels is reported with the pair of glyph
\* names at fault.
C19_Kerning ==
    (Tried("Kerning") /\ input.t = "Dictionary" /\ dec.st # "Panic")
      => LET d == input.v
         IN  IF BadMasters(d) = {} /\ BadLefts(d) = {} /\ BadLeaves(d) = {}
             THEN /\ dec.st = "Ok"
                  /\ DOMAIN dec.val = DOMAIN d
             ELSE /\ dec.st = "Err"
                  /\ dec.d = "NotFloatValue"
                  /\ Len(dec.a) = 2
                  /\ BadLeaves(d) # {} => dec.a \in BadLeaves(d)


(***************************************************************************)
(* Properties of sequences.                                                *)
(***************************************************************************)

\* The conversion of the element i of the input array into the element type.
ElementResult(i) == try_from(Targets[target].of, input.v[i])

\* The first element of the input array whose conversion does not succeed,
\* or 0.
FirstFailure ==
    IF \A i \in 1..Len(input.v) : ElementResult(i).st = "Ok" THEN 0
    ELSE CHOOSE i \in 1..Len(input.v) :
            /\ ElementResult(i).st # "Ok"
            /\ \A j \in 1..(i - 1) : ElementResult(j).st = "Ok"

\* C20: an Array decoded into a sequence has its elements converted in
\* order; the first element whose conversion fails ends the decode with an
\* array error that wraps the error of that element; an input that is not
\* an Array is returned as an error too.
C20_Sequence ==
    /\ (Tried("Vec") /\ input.t = "Array" /\ FirstFailure = 0)
          => /\ dec.st = "Ok"
             /\ Len(dec.val) = Len(input.v)
             /\ \A i \in 1..Len(input.v) : dec.val[i] = ElementResult(i).val
    /\ (Tried("Vec") /\ input.t = "Array" /\ FirstFailure # 0)
          => (ElementResult(FirstFailure).st = "Err"
                => /\ dec.st = "Err"
                   /\ dec.e = "Array"
                   /\ dec.d = ElementResult(FirstFailure).e
                   /\ dec.a = ElementResult(FirstFailure).a)
    /\ (Tried("Vec") /\ input.t # "Array") => dec.st = "Err"


(***************************************************************************)
(* Properties of the conversions to and from norad.                        *)
(***************************************************************************)

\* approx_equal of the tests: (a - b).abs() < tolerance
approx_equal(a, b, tolerance) ==
    LET d == FAdd(a, FNeg(b))
    IN  FLess(IF d.c = "nan" THEN d ELSE [d EXCEPT !.neg = FALSE], tolerance)

\* C21: a transform without shear whose scales and offsets lie in
\* [-10000, 10000), decomposed into scale, rotation and position and
\* composed again, has each of its six coefficients within 1e-5 of the
\* original.
C21_AffineRoundTrip ==
    transform2.some
      => \A k \in DOMAIN transform1 :
            approx_equal(transform1[k], transform2.v[k], F64(FALSE, 1, 0 - 5))

\* C25: a Path without attributes whose nodes have no attributes, empty,
\* open or closed, converts into a norad contour without a panic, and the
\* Path made from that contour is equal to it: the same closed flag and the
\* same nodes in the same order.
C25_PathRoundTrip ==
    /\ contour.some => contour.v.st = "Ok"
    /\ path2.some => path2.v = path1

(***************************************************************************)
(* Properties of the written text                                          *)
(***************************************************************************)

\* The keys of the dictionary d, one after the other in ascending order.
Ascending(d) ==
    CHOOSE ks \in [1..Cardinality(DOMAIN d) -> DOMAIN d] :
        \A i \in 1..(Len(ks) - 1) : StrLess(ks[i], ks[i + 1])

\* Every dictionary in p, at every level, is written as its pairs in
\* ascending order of the keys.
RECURSIVE WrittenInOrder(_)
WrittenInOrder(p) ==
    CASE p.t = "Array" -> \A i \in 1..Len(p.v) : WrittenInOrder(p.v[i])
      [] p.t = "Dictionary" ->
            /\ push_to_string(p)
                  = <<"{", "\n">> \o push_dict(p.v, Ascending(p.v)) \o <<"}">>
            /\ \A k \in DOMAIN p.v : WrittenInOrder(p.v[k])
      [] OTHER -> TRUE

\* C22: to_text writes the pairs of every dictionary, at every nesting
\* level, in ascending lexicographic order of the keys; a dictionary that
\* was read from a text with its keys in another order, and the equal
\* dictionary read back from the written text, are written as the same text.
C22_SortedKeys ==
    /\ out.some => (out.v = push_to_string(tree.val) /\ WrittenInOrder(tree.val))
    /\ (out.some /\ back.ok /\ PlistEq(back.val, tree.val))
          => push_to_string(back.val) = out.v

\* A dictionary read with its keys out of order, holding a dictionary of two
\* keys out of order, has been written and read back equal.
C22_Witness ==
    /\ nested
    /\ out.some
    /\ back.ok
    /\ tree.val.t = "Dictionary"
    /\ DOMAIN tree.val.v = {<<"a">>, <<"b">>}
    /\ tree.val.v[<<"b">>].t = "Dictionary"
    /\ DOMAIN tree.val.v[<<"b">>].v = {<<"c">>, <<"d">>}
    /\ PlistEq(back.val, tree.val)

\* The text of the value at the start of the parsed text: what parse_rec
\* read, without what follows it.
ValueText == SubSeq(text, 1, parse_rec(text, 0).ix)

\* Texts to follow a value.  A bareword or a number ends where the first
\* character that cannot be part of one stands, so what follows one of those
\* starts with such a character; a quoted string, an array and a dictionary
\* end with their closing character, and anything follows.
Trailing ==
    LET any == { <<>>, <<" ">>, <<"\n", "\t">>, <<" ", "x">>, <<")">>, <<"}">>, <<";">>,
                 <<",", "2">>, <<"\"">>, <<"(">>, <<" ", "{", "a">>, <<"#">>,
                 <<"\\">>, <<"=">>, <<" ", "1", " ", "2">>, <<" ", "(", ")", "}">> }
    IN  IF ValueText # <<>> /\ ValueText[Len(ValueText)] \in {"\"", ")", "}"}
        THEN any \cup { <<"x">>, <<"1", "2">>, <<"-">> }
        ELSE any

\* C26: Plist::parse returns the value at the start of the text whatever
\* follows the value: white space, further values or text that is no plist
\* at all.  The texts are made of the value that has just been parsed.
C26_TrailingIgnored ==
    (origin = "parse" /\ tree.ok /\ ~out.some)
      => \A g \in Trailing :
            /\ parse(ValueText \o g).ok
            /\ PlistSame(parse(ValueText \o g).val, tree.val)

\* A text with more than white space after its value has been parsed.
C26_Witness ==
    /\ origin = "parse"
    /\ tree.ok
    /\ skip_ws(text, Len(ValueText)) < Len(text)

\* The ways to write a key: the key a as a bareword and as a quoted string,
\* and the key b.
Written ==
    << [key |-> <<"a">>, as |-> <<"a">>],
       [key |-> <<"a">>, as |-> <<"\"", "a", "\"">>],
       [key |-> <<"b">>, as |-> <<"b">>] >>

\* Dictionary texts of two and of three pairs with their keys out of
\* Written, ks[i] saying which.  The value parsed stands at the second pair,
\* and the number i at every other pair i.
RepeatedAt(ks, i) ==
    [key |-> Written[ks[i]].key,
     text |-> Written[ks[i]].as \o <<" ", "=">>
                \o (IF i = 2 THEN ValueText ELSE <<" ">> \o FmtNat(i)) \o <<";">>,
     val |-> IF i = 2 THEN tree.val ELSE PInteger(i)]

RepeatedText(ks) ==
    <<"{">>
      \o RepeatedAt(ks, 1).text
      \o RepeatedAt(ks, 2).text
      \o (IF Len(ks) >= 3 THEN RepeatedAt(ks, 3).text ELSE <<>>)
      \o <<"}">>

\* The last pair of the text with the key k.
LastOccurrence(ks, k) ==
    RepeatedAt(ks,
               CHOOSE i \in 1..Len(ks) :
                   /\ Written[ks[i]].key = k
                   /\ \A j \in (i + 1)..Len(ks) : Written[ks[j]].key # k)

\* C30: a dictionary text in which a key occurs more than once, quoted or
\* as a bareword, parses without error, and the dictionary has one entry for
\* each distinct key, with the value of the last occurrence of the key.  The
\* texts are made of the value that has just been parsed.
C30_RepeatedKeys ==
    (origin = "parse" /\ tree.ok /\ ~out.some)
      => \A n \in 2..3 : \A ks \in [1..n -> 1..Len(Written)] :
            LET r == parse(RepeatedText(ks))
            IN  /\ r.ok
                /\ r.val.t = "Dictionary"
                /\ DOMAIN r.val.v = {Written[ks[i]].key : i \in 1..n}
                /\ \A k \in DOMAIN r.val.v :
                      PlistSame(r.val.v[k], LastOccurrence(ks, k).val)

\* The text {a=1;a=2;} has been parsed into the dictionary with 2 at a.
C30_Witness ==
    /\ origin = "parse"
    /\ text = <<"{", "a", "=", "1", ";", "a", "=", "2", ";", "}">>
    /\ tree.ok
    /\ tree.val.t = "Dictionary"
    /\ DOMAIN tree.val.v = {<<"a">>}
    /\ tree.val.v[<<"a">>] = PInteger(2)

(***************************************************************************)
(* Properties of the decoding and the encoding of whole structs            *)
(***************************************************************************)

\* No key of the input belongs to a field that is not always_serialise and
\* was decoded to the default of the field.
NoDefaultCarried ==
    \A fd \in Declared(Struct) :
        (~fd.always_serialise /\ plist_name(fd) \in DOMAIN input.v)
            => ~TypedEq(fd.ty, dec.val[fd.ident], default_value(fd))

\* The Plist p is what the encoding of the field writes for the value that
\* p decodes to.
InWrittenForm(fd, p) ==
    LET into == IF fd.ty.k = "Option" THEN fd.ty.of ELSE fd.ty
    IN  /\ try_from(into, p).st = "Ok"
        /\ PlistSame(to_plist(into, try_from(into, p).val), p)

\* C23: for every dictionary d that decodes into a struct with a
\* rest field and in which no key of a field that is not always_serialise
\* carries the default of the field, encode(decode(d)) is d.
C23_DecodeEncode ==
    (DecodedAndEncoded /\ consumes_rest(Struct) /\ NoDefaultCarried)
        => PlistSame(enc.v, input)

\* What does come back of such a dictionary d: encode(decode(d)) has the
\* keys of d and no other, maps every undeclared key to its value in d and
\* every declared key to the encoding of the decoded value of the field,
\* which is the value in d when that value is in the form the encoding
\* writes.
DecodeEncodeWritten ==
    (DecodedAndEncoded /\ consumes_rest(Struct) /\ NoDefaultCarried)
        => /\ enc.v.t = "Dictionary"
           /\ DOMAIN enc.v.v = DOMAIN input.v
           /\ \A k \in DOMAIN input.v \ WireKeys(Struct) : Emits(k, input.v[k])
           /\ \A fd \in Declared(Struct) :
                  plist_name(fd) \in DOMAIN input.v
                    => /\ Emits(plist_name(fd),
                                to_plist_opt(fd.ty, dec.val[fd.ident]).v)
                       /\ InWrittenForm(fd, input.v[plist_name(fd)])
                            => Emits(plist_name(fd), input.v[plist_name(fd)])

\* The rest bucket of the decoded struct.
RestBucket == dec.val[rest_field(Struct).ident]

\* C24: after a successful decode into a struct with a rest field, the rest
\* bucket holds exactly the input keys that are not wire keys of declared
\* fields, each with its input value: no declared wire key is in it, every
\* undeclared input key is, and every input key is consumed by one field or
\* kept in the bucket, never both and never lost.
C24_RestBucket ==
    (/\ IsRecord
     /\ made = "try_from"
     /\ input.t = "Dictionary"
     /\ dec.st = "Ok"
     /\ consumes_rest(Struct))
        => LET consumed == { plist_name(fd) :
                                fd \in { f \in Declared(Struct) :
                                            \E i \in 1..Len(Ran) : Ran[i] = f.ident } }
           IN  /\ DOMAIN RestBucket = DOMAIN input.v \ WireKeys(Struct)
               /\ \A k \in DOMAIN RestBucket : PlistSame(RestBucket[k], input.v[k])
               /\ DOMAIN RestBucket \cap consumed = {}
               /\ DOMAIN RestBucket \cup consumed = DOMAIN input.v

\* The Font of the format 3 example has been decoded: .appVersion and
\* .formatVersion went to their fields, and the key zz to the rest bucket.
C24_Witness ==
    /\ IsRecord
    /\ Struct = "Font"
    /\ made = "try_from"
    /\ dec.st = "Ok"
    /\ dec.val[<<"a", "p", "p", "_", "v", "e", "r", "s", "i", "o", "n">>] = <<"3", "2", "5", "9">>
    /\ dec.val[<<"f", "o", "r", "m", "a", "t", "_", "v", "e", "r", "s", "i", "o", "n">>].some
    /\ dec.val[<<"f", "o", "r", "m", "a", "t", "_", "v", "e", "r", "s", "i", "o", "n">>].v = 3
    /\ DOMAIN RestBucket = { <<"z", "z">> }
    /\ <<".", "a", "p", "p", "V", "e", "r", "s", "i", "o", "n">> \in DOMAIN input.v

\* What the initialiser of field i of the struct makes of the input, taken
\* alone: the result of the converter when the key is there, MissingField
\* when it is not and the field is Required, and a value otherwise.
FieldOutcome(i) ==
    LET fd == Fields(Struct)[i]
        key == plist_name(fd)
        into == IF fd.default.c = "None" /\ fd.ty.k = "Option" THEN fd.ty.of ELSE fd.ty
    IN  IF fd.rest THEN CvOk(<<>>)
        ELSE IF key \in DOMAIN input.v THEN try_from(into, input.v[key])
        ELSE IF IsRequired(fd) THEN CvErr("MissingField", "MissingField", fd.ident)
        ELSE CvOk(<<>>)

\* The first field, in the order of the declaration, that fails; 0 if none.
FirstFailing ==
    LET failing == { i \in 1..Len(Fields(Struct)) : FieldOutcome(i).st # "Ok" }
    IN  IF failing = {} THEN 0
        ELSE CHOOSE i \in failing : \A j \in failing : i <= j

\* The place of the field named ident in the declaration.
PlaceOf(ident) ==
    CHOOSE i \in 1..Len(Fields(Struct)) : Fields(Struct)[i].ident = ident

\* Two results of a conversion are the same result.
SameResult(x, y) ==
    /\ x.st = y.st
    /\ x.st = "Err" => (x.e = y.e /\ x.d = y.d /\ x.a = y.a)
    /\ x.st = "Panic" => x.msg = y.msg

\* C29: the decoding of a struct takes the declared fields in the order of
\* the declaration and ends with the result of the first field that fails,
\* the error MissingField or the error of the converter; the converter of no
\* later field is run, and no struct is built of the fields that did decode.
\* Keys that no field declares are looked for after all the fields: a
\* dictionary without a Required key and with an undeclared key gives
\* MissingField.
C29_FieldOrder ==
    (IsRecord /\ made = "try_from" /\ input.t = "Dictionary")
        => /\ FirstFailing # 0
                => /\ SameResult(dec, FieldOutcome(FirstFailing))
                   /\ FieldOutcome(FirstFailing).st = "Err" => dec.st = "Err"
                   /\ \A j \in 1..Len(Ran) : PlaceOf(Ran[j]) <= FirstFailing
           /\ dec.st = "Ok" => FirstFailing = 0
           /\ (/\ FirstFailing # 0
               /\ FieldOutcome(FirstFailing).st = "Err"
               /\ FieldOutcome(FirstFailing).e = "MissingField")
                => /\ dec.st = "Err"
                   /\ dec.e = "MissingField"
                   /\ dec.a = Fields(Struct)[FirstFailing].ident

\* A dictionary with a key that no field declares and without the key of a
\* Required field has been decoded into a struct without a rest field, of
\* which a later field fails as well.
C29_Witness ==
    /\ IsRecord
    /\ made = "try_from"
    /\ input.t = "Dictionary"
    /\ ~consumes_rest(Struct)
    /\ DOMAIN input.v \ WireKeys(Struct) # {}
    /\ FirstFailing # 0
    /\ \E i \in (FirstFailing + 1)..Len(Fields(Struct)) : FieldOutcome(i).st # "Ok"
    /\ dec.st = "Err"
    /\ dec.e = "MissingField"

\* C27: for every value r of a struct, decode(encode(r)) succeeds and is r:
\* also for a value whose Required fields that are not always_serialise hold
\* the default of their type, an empty string or an empty array.
C27_EncodeDecode ==
    (IsRecord /\ dec.st = "Ok" /\ enc.some)
        => /\ Again.st = "Ok"
           /\ TypedEq(Targets[target], Again.val, dec.val)

\* C28: for every struct that a decoding returned, of a Glyph whose unicode
\* is an empty Array also, the encoding completes and returns a Dictionary;
\* no encoding aborts.
C28_EncodeCompletes ==
    (IsRecord /\ Struct # "FooBar" /\ made = "try_from" /\ dec.st = "Ok")
        => /\ ~to_plist_panics(Targets[target], dec.val)
           /\ enc.some => enc.v.t = "Dictionary"
====
